---- MODULE Spec2Model ----
(***************************************************************************)
(* Verification model of the WebLens execution engine                      *)
(* (backend/interpreter.py, backend/models.py, backend/failures.py,        *)
(* backend/errors.py, backend/main.py, backend/execution_manager.py).      *)
(*                                                                         *)
(* Strings of the program are sequences of one-character strings, so that  *)
(* the regular-expression scan and str.replace of _interpolate are         *)
(* computed, not assumed.  The alphabet has the line break, the one        *)
(* character that '.' of the pattern \{\{(.*?)\}\} does not match.          *)
(*                                                                         *)
(* Spec is a run of execute_flow, SpecInterp one call of _interpolate,     *)
(* SpecResolve one click_element or wait_until_visible handler with the    *)
(* resolvers of backend/resolution.py and backend/structural_resolver.py   *)
(* and the Selenium engine of backend/browser_engine.py (times in tenths   *)
(* of a second), SpecScore one call of ElementResolver.resolve on a page   *)
(* of two candidates.                                                      *)
(*                                                                         *)
(* SpecHistory is the in-memory map execution_history over many runs,      *)
(* SpecManager one run of execute_flow_background with its SSE consumer,   *)
(* its delayed cleanup and a delete request, SpecConcurrent two such runs  *)
(* at one time, and SpecCycle a run of a flow of three delay blocks whose  *)
(* next_block references may form a cycle.  SpecOpenPage is one open_page  *)
(* block from its construction to the call of engine.open_page.            *)
(***************************************************************************)
EXTENDS Integers, Sequences, FiniteSets, TLC

\* ------------------------------------------------------------------ bounds
MaxTextLen == 6

\* largest RepeatUntilBlock.max_iterations of a modelled flow (the field allows 1..50)
MaxIterations == 2

\* nested _execute_block calls the Python interpreter allows before it raises
\* RecursionError (sys.getrecursionlimit() frames in CPython)
RecursionLimit == 5

\* ------------------------------------------------------------------ texts
NewLine == "\n"

Chars == {"{", "}", "a", " ", NewLine}

Open == <<"{", "{">>

Close == <<"}", "}">>

RECURSIVE SeqsUpTo(_)
SeqsUpTo(n) ==
    IF n = 0 THEN {<<>>}
    ELSE LET shorter == SeqsUpTo(n - 1)
         IN  shorter \cup {Append(s, c) : s \in {t \in shorter : Len(t) = n - 1}, c \in Chars}

Texts == SeqsUpTo(MaxTextLen)

IsAt(s, i, pat) ==
    /\ i >= 1
    /\ i + Len(pat) - 1 <= Len(s)
    /\ SubSeq(s, i, i + Len(pat) - 1) = pat

\* str.find(pat, i): first index >= i at which pat occurs, 0 when there is none
RECURSIVE FindFrom(_, _, _)
FindFrom(s, i, pat) ==
    IF i + Len(pat) - 1 > Len(s) THEN 0
    ELSE IF IsAt(s, i, pat) THEN i
    ELSE FindFrom(s, i + 1, pat)

Contains(s, pat) == FindFrom(s, 1, pat) # 0

\* str.strip() on the modelled alphabet
Whitespace == {" ", NewLine}

RECURSIVE LStrip(_)
LStrip(s) == IF Len(s) > 0 /\ s[1] \in Whitespace THEN LStrip(Tail(s)) ELSE s

RECURSIVE RStrip(_)
RStrip(s) ==
    IF Len(s) > 0 /\ s[Len(s)] \in Whitespace THEN RStrip(SubSeq(s, 1, Len(s) - 1)) ELSE s

Strip(s) == RStrip(LStrip(s))

\* str.replace(old, new) for a non-empty old: left to right, non-overlapping
RECURSIVE Replace(_, _, _)
Replace(s, old, new) ==
    LET j == FindFrom(s, 1, old)
    IN  IF j = 0 THEN s
        ELSE SubSeq(s, 1, j - 1) \o new \o Replace(SubSeq(s, j + Len(old), Len(s)), old, new)

\* '.' of a pattern compiled without re.DOTALL
DotMatches(c) == c # NewLine

\* re.findall(r'\{\{(.*?)\}\}', text): the groups of the leftmost,
\* non-overlapping, lazy matches, scanning from index i.  A match that
\* starts at j ends at the first "}}" after it, and there is none at j when a
\* character '.' does not match stands in between.
RECURSIVE FindPlaceholders(_, _)
FindPlaceholders(text, i) ==
    LET j == FindFrom(text, i, Open)
    IN  IF j = 0 THEN <<>>
        ELSE LET k == FindFrom(text, j + 2, Close)
             IN  IF k = 0 THEN <<>>
                 ELSE IF \A m \in (j + 2)..(k - 1) : DotMatches(text[m])
                 THEN <<SubSeq(text, j + 2, k - 1)>> \o FindPlaceholders(text, k + 2)
                 ELSE FindPlaceholders(text, j + 1)

\* ------------------------------------------------------------- failures
NoError == [kind |-> "none", owner |-> "none", determinism |-> "none", base |-> "none"]

\* failures.py: every WebLensFailure carries an owner and a determinism
WebLensFailure(kind, owner, determinism) ==
    [kind |-> kind, owner |-> owner, determinism |-> determinism, base |-> "WebLensFailure"]

VariableMissingError == WebLensFailure("VariableMissingError", "USER", "CERTAIN")

\* ---------------------------------------------------------- _interpolate
RECURSIVE InterpolateLoop(_, _, _, _)
InterpolateLoop(ps, i, result, sv) ==
    IF i > Len(ps) THEN [raised |-> FALSE, value |-> result, error |-> NoError]
    ELSE LET p   == ps[i]
             key == Strip(p)
         IN  IF key \in DOMAIN sv
             THEN InterpolateLoop(ps, i + 1, Replace(result, Open \o p \o Close, sv[key]), sv)
             ELSE [raised |-> TRUE, value |-> <<>>, error |-> VariableMissingError]

\* BlockInterpreter._interpolate with a context (every call made during a run)
_interpolate(text, sv) ==
    IF text = <<>> THEN [raised |-> FALSE, value |-> <<>>, error |-> NoError]
    ELSE InterpolateLoop(FindPlaceholders(text, 1), 1, text, sv)

\* ------------------------------------------------------------ data model
\* Optional[str] id: "none" is Python's None
None == "none"

\* the empty string, which an Optional[str] id may also be
EmptyId == ""

\* the truth value of an Optional[str] id (if block.next_block ..., if next_id)
Truthy(id) == id # None /\ id # EmptyId

\* models.py ElementRef; present = FALSE is an Optional[ElementRef] of None
NoElement == [present |-> FALSE, name |-> <<>>]

ElementRef(name) == [present |-> TRUE, name |-> name]

\* models.py Condition; an unused Optional[str] field is <<>>
Condition(kind, element, expected_fragment, value_ref) ==
    [kind |-> kind, element |-> element, value |-> <<>>, expected_title |-> <<>>,
     expected_fragment |-> expected_fragment, expected_text |-> <<>>, value_ref |-> value_ref]

NoCondition == Condition("none", NoElement, <<>>, <<>>)

\* models.py BaseBlock and its subclasses, one record shape for all types
Block(type, next) ==
    [type |-> type, next_block |-> next, element |-> NoElement,
     url |-> <<>>, text |-> <<>>, option_text |-> <<>>, match_value |-> <<>>,
     condition |-> NoCondition, then_blocks |-> <<>>, else_blocks |-> <<>>,
     body_blocks |-> <<>>, max_iterations |-> 0,
     key |-> <<>>, action |-> "none", file |-> FALSE]

ControlTypes == {"if_condition", "repeat_until"}

\* texts used by the modelled flows
TxtA == <<"a">>

TxtB == <<"b">>

PhA == <<"{", "{", "a", "}", "}">>

PhB == <<"{", "{", "b", "}", "}">>

\* OpenPageBlock.validate_url puts a scheme in front of a url that has none;
\* a scheme is one symbol of the text
Scheme == "https://"

PlainScheme == "http://"

validate_url(v) ==
    IF Len(v) > 0 /\ v[1] \in {PlainScheme, Scheme} THEN v ELSE <<Scheme>> \o v

OpenPageBlock(url, next) == [Block("open_page", next) EXCEPT !.url = validate_url(url)]

ClickElementBlock(el, next) == [Block("click_element", next) EXCEPT !.element = el]

EnterTextBlock(el, text, next) ==
    [Block("enter_text", next) EXCEPT !.element = el, !.text = text]

SelectOptionBlock(el, opt, next) ==
    [Block("select_option", next) EXCEPT !.element = el, !.option_text = opt]

UploadFileBlock(el, next) ==
    [Block("upload_file", next) EXCEPT !.element = el, !.file = TRUE]

VerifyTextBlock(el, value, next) ==
    [Block("verify_text", next) EXCEPT !.element = el, !.match_value = value]

VerifyPageContentBlock(value, next) ==
    [Block("verify_page_content", next) EXCEPT !.match_value = value]

SaveTextBlock(el, key, next) ==
    [Block("save_text", next) EXCEPT !.element = el, !.key = key]

UseSavedValueBlock(el, key, action, next) ==
    [Block("use_saved_value", next) EXCEPT !.element = el, !.key = key, !.action = action]

SubmitFormBlock(el, next) == [Block("submit_form", next) EXCEPT !.element = el]

SubmitCurrentInputBlock(el, next) ==
    [Block("submit_current_input", next) EXCEPT !.element = el]

DelayBlock(next) == Block("delay", next)

IfConditionBlock(cond, thens, elses, next) ==
    [Block("if_condition", next) EXCEPT
        !.condition = cond, !.then_blocks = thens, !.else_blocks = elses]

RepeatUntilBlock(cond, body, max, next) ==
    [Block("repeat_until", next) EXCEPT
        !.condition = cond, !.body_blocks = body, !.max_iterations = max]

\* models.py FlowGraph: entry_block and blocks, the blocks keyed by their
\* unique id (FlowGraph.validate_blocks)
FlowGraph(entry, blocks) == [entry_block |-> entry, blocks |-> blocks]

get_block_by_id(f, id) == f.blocks[id]

BlockIds(f) == DOMAIN f.blocks

SeqElems(s) == {s[i] : i \in 1..Len(s)}

\* ------------------------------------------------------------ validation
\* FlowGraph.validate_references: the dangling references, as the set of
\* (block, field) pairs the error list names
validate_references(f) ==
    LET ids == BlockIds(f)
    IN  (IF f.entry_block \notin ids THEN {<<"flow", "entry_block">>} ELSE {})
        \cup {<<id, "next_block">> : id \in {i \in ids :
                 Truthy(f.blocks[i].next_block) /\ f.blocks[i].next_block \notin ids}}
        \cup {<<id, "then_blocks">> : id \in {i \in ids :
                 f.blocks[i].type = "if_condition"
                 /\ ~(SeqElems(f.blocks[i].then_blocks) \subseteq ids)}}
        \cup {<<id, "else_blocks">> : id \in {i \in ids :
                 f.blocks[i].type = "if_condition"
                 /\ ~(SeqElems(f.blocks[i].else_blocks) \subseteq ids)}}
        \cup {<<id, "body_blocks">> : id \in {i \in ids :
                 f.blocks[i].type = "repeat_until"
                 /\ ~(SeqElems(f.blocks[i].body_blocks) \subseteq ids)}}

\* contains_variable: re.search(r'\{\{[^}]+\}\}', text)
contains_variable(text) ==
    \E i \in 1..Len(text) : \E k \in (i + 3)..Len(text) :
        /\ IsAt(text, i, Open)
        /\ IsAt(text, k, Close)
        /\ \A m \in (i + 2)..(k - 1) : text[m] # "}"

ElementConditionKinds == {"element_visible", "element_not_visible", "text_match"}

\* the required-field errors of one block (first loop of validate_completeness)
RequiredFieldErrors(b) ==
    CASE b.type = "open_page" ->
            IF Strip(b.url) = <<>> THEN {"Requires a URL"} ELSE {}
      [] b.type \in {"click_element", "submit_form"} ->
            IF ~b.element.present THEN {"Requires a target element"} ELSE {}
      [] b.type = "enter_text" ->
            IF ~b.element.present THEN {"Requires a target element"} ELSE {}
      [] b.type = "select_option" ->
            (IF ~b.element.present THEN {"Requires a dropdown element"} ELSE {})
            \cup (IF b.option_text = <<>> THEN {"Requires option text"} ELSE {})
      [] b.type = "upload_file" ->
            (IF ~b.element.present THEN {"Requires a file input element"} ELSE {})
            \cup (IF ~b.file THEN {"Requires a file selection"} ELSE {})
      [] b.type = "verify_text" ->
            (IF ~b.element.present THEN {"Requires a target element"} ELSE {})
            \cup (IF b.match_value = <<>> THEN {"Requires expected text value"} ELSE {})
      [] b.type = "save_text" ->
            (IF ~b.element.present THEN {"Requires a target element"} ELSE {})
            \cup (IF b.key = <<>> THEN {"Requires a variable name"} ELSE {})
      [] b.type = "use_saved_value" ->
            (IF b.key = <<>> THEN {"Requires a source value"} ELSE {})
            \cup (IF ~b.element.present THEN {"Requires a target element"} ELSE {})
      [] b.type = "verify_page_content" ->
            IF b.match_value = <<>> THEN {"Requires text to search for"} ELSE {}
      [] b.type \in ControlTypes ->
            IF b.condition.kind = "none" THEN {"Requires a condition"}
            ELSE IF b.condition.kind \in ElementConditionKinds /\ ~b.condition.element.present
                 THEN {"Requires an element"}
                 ELSE {}
      [] OTHER -> {}

ElementBlockTypes ==
    {"click_element", "enter_text", "wait_until_visible", "assert_visible",
     "select_option", "upload_file", "verify_text", "scroll_to_element",
     "save_text", "verify_element_enabled", "submit_form", "submit_current_input"}

\* the evidence-compatibility errors of one block (second loop)
SavedValueErrors(b) ==
    (IF b.type \in ControlTypes /\ b.condition.kind # "none"
        /\ (\/ contains_variable(b.condition.value)
            \/ contains_variable(b.condition.expected_title)
            \/ contains_variable(b.condition.expected_fragment)
            \/ contains_variable(b.condition.expected_text))
     THEN {"Saved values cannot be used in control flow conditions"} ELSE {})
    \cup
    (IF b.type \in ElementBlockTypes /\ b.element.present /\ contains_variable(b.element.name)
     THEN {"Saved values cannot be used for element selection"} ELSE {})

\* FlowGraph.validate_completeness: the errors, as (block, message) pairs
validate_completeness(f) ==
    UNION {{<<id, m>> : m \in RequiredFieldErrors(f.blocks[id]) \cup SavedValueErrors(f.blocks[id])}
           : id \in BlockIds(f)}

\* main.py start_execution: the entry block is a true root
is_root(f) ==
    \A id \in BlockIds(f) :
        LET b == f.blocks[id]
        IN  /\ b.next_block # f.entry_block
            /\ f.entry_block \notin SeqElems(b.then_blocks)
            /\ f.entry_block \notin SeqElems(b.else_blocks)
            /\ f.entry_block \notin SeqElems(b.body_blocks)

\* ------------------------------------------------- failures raised in a run
\* browser_engine.py BrowserEngineError; no raise site passes a user_error
BrowserEngineError ==
    [kind |-> "BrowserEngineError", owner |-> "none", determinism |-> "none",
     base |-> "BrowserEngineError"]

\* any other Python exception (ValueError, AttributeError, a driver exception)
UnexpectedException ==
    [kind |-> "Exception", owner |-> "none", determinism |-> "none", base |-> "Exception"]

IntentCapabilityMismatchError == WebLensFailure("IntentCapabilityMismatchError", "USER", "CERTAIN")

\* InteractionRejectedError is an alias of InteractionBlockedError
InteractionBlockedError == WebLensFailure("InteractionBlockedError", "APP", "CERTAIN")

VerificationMismatchError == WebLensFailure("VerificationMismatchError", "USER", "CERTAIN")

LogicError == WebLensFailure("LogicError", "USER", "CERTAIN")

\* ------------------------------------------------------ browser engine
\* the elements of the page under test; a handle is one of them
PageElements == {"button", "input", "select", "file"}

NoHandle == "no_handle"

\* what get_element_capabilities reports for an element of the page
Capabilities(h) ==
    CASE h = "button" -> {"clickable", "readable", "submittable"}
      [] h = "input"  -> {"clickable", "editable"}
      [] h = "select" -> {"clickable", "select_like"}
      [] h = "file"   -> {"clickable", "file_input"}

\* the texts get_element_text can return
PageTexts == {TxtA, PhB}

\* one call of the interpreter into the engine
Call(op, handle, arg) ==
    [op |-> op, handle |-> handle, arg |-> arg, required |-> "none",
     raised |-> FALSE, caps |-> {}]

\* the outcomes of engine.get_element_capabilities(handle): it raises, or
\* reports the element's capabilities, or reports none (the empty dict the
\* Selenium engine answers when its script fails)
CapabilityQuery(h, required) ==
    {[Call("get_element_capabilities", h, <<>>) EXCEPT !.required = required, !.raised = TRUE]}
    \cup {[Call("get_element_capabilities", h, <<>>) EXCEPT !.required = required, !.caps = c]
          : c \in {Capabilities(h), {}}}

\* BlockInterpreter._check_capabilities raises on the answer q
check_capabilities_skip(q) == FALSE

_check_capabilities(q) == ~q.raised /\ q.required \notin q.caps

\* what a handler did: the failure it raised (NoError when it returned), its
\* engine calls, the saved values, TAF messages and evidence it left
Outcome(exc, calls, sv, taf, evidence) ==
    [exc |-> exc, calls |-> calls, sv |-> sv, taf |-> taf, evidence |-> evidence]

\* the results of an engine action: it returns, raises a BrowserEngineError,
\* raises one whose message the handler recognises, or raises something else
EngineResults == {"ok", "BrowserEngineError", "recognised", "Exception"}

EngineFailure(r, recognisedAs) ==
    CASE r = "ok" -> NoError
      [] r = "BrowserEngineError" -> BrowserEngineError
      [] r = "recognised" -> recognisedAs
      [] r = "Exception" -> UnexpectedException

\* resolve, check the capability, then act on the handle: the shape shared by
\* the interaction handlers.  resolveFail is what a failed resolution raises
\* in this handler, recognisedAs what a recognised engine error is turned into
\* and plainAs what any other BrowserEngineError is turned into
GuardedInteraction(sv, required, op, arg, taf, resolveFail, recognisedAs, plainAs) ==
    {Outcome(resolveFail, <<>>, sv, <<"resolve">>, "none")}
    \cup UNION {
        IF _check_capabilities(q)
        THEN {Outcome(IntentCapabilityMismatchError, <<q>>, sv, <<"resolve">>, "none")}
        ELSE {Outcome(IF r = "BrowserEngineError" THEN plainAs ELSE EngineFailure(r, recognisedAs),
                      <<q, [Call(op, q.handle, arg) EXCEPT !.raised = (r # "ok")]>>,
                      sv, <<"resolve">> \o taf, "none")
              : r \in EngineResults}
        : q \in UNION {CapabilityQuery(h, required) : h \in PageElements}}

\* ------------------------------------------------------------- handlers
\* Each handler is the set of its outcomes on block b with saved values sv;
\* the engine and the page decide which one happens.
BaseUrlKey == <<"BASE_URL">>

RECURSIVE RStripSlash(_)
RStripSlash(s) ==
    IF Len(s) > 0 /\ s[Len(s)] = "/" THEN RStripSlash(SubSeq(s, 1, Len(s) - 1)) ELSE s

_execute_open_page(b, sv) ==
    LET url == IF Len(b.url) > 0 /\ b.url[1] = "/" /\ BaseUrlKey \in DOMAIN sv
               THEN RStripSlash(sv[BaseUrlKey]) \o b.url
               ELSE b.url
    IN  {Outcome(EngineFailure(r, BrowserEngineError),
                 <<[Call("open_page", NoHandle, url) EXCEPT !.raised = (r # "ok")]>>,
                 sv, <<"open_page">>, "none")
         : r \in EngineResults \ {"recognised"}}

_execute_click_element(b, sv) ==
    IF ~b.element.present
    THEN {Outcome(UnexpectedException, <<>>, sv, <<>>, "none")}
    ELSE GuardedInteraction(sv, "clickable", "click_handle", <<>>, <<"click_element">>,
                            BrowserEngineError, InteractionBlockedError, BrowserEngineError)

_execute_enter_text(b, sv) ==
    LET val == _interpolate(b.text, sv)
    IN  IF val.raised THEN {Outcome(val.error, <<>>, sv, <<>>, "none")}
        ELSE IF ~b.element.present
        THEN {Outcome(UnexpectedException, <<>>, sv, <<>>, "none")}
        ELSE GuardedInteraction(sv, "editable", "enter_text_handle", val.value, <<"enter_text">>,
                                BrowserEngineError, InteractionBlockedError, BrowserEngineError)

_execute_select_option(b, sv) ==
    LET opt == _interpolate(b.option_text, sv)
    IN  IF opt.raised THEN {Outcome(opt.error, <<>>, sv, <<>>, "none")}
        ELSE IF ~b.element.present
        THEN {Outcome(UnexpectedException, <<>>, sv, <<>>, "none")}
        ELSE GuardedInteraction(sv, "select_like", "select_option", opt.value, <<"select_option">>,
                                InteractionBlockedError, InteractionBlockedError,
                                InteractionBlockedError)

\* FileResolver.resolve sits between the capability check and the upload: a
\* missing file is a ValueError, turned into LogicError
_execute_upload_file(b, sv) ==
    IF ~b.file THEN {Outcome(UnexpectedException, <<>>, sv, <<>>, "none")}
    ELSE IF ~b.element.present
    THEN {Outcome(UnexpectedException, <<>>, sv, <<"upload_file">>, "none")}
    ELSE GuardedInteraction(sv, "file_input", "upload_file", <<>>, <<"upload_file">>,
                            InteractionBlockedError, InteractionBlockedError,
                            InteractionBlockedError)
         \cup {Outcome(LogicError, <<q>>, sv, <<"upload_file", "resolve">>, "none")
               : q \in {c \in UNION {CapabilityQuery(h, "file_input") : h \in PageElements}
                        : ~_check_capabilities(c)}}

_execute_submit_form(b, sv) ==
    IF ~b.element.present
    THEN {Outcome(UnexpectedException, <<>>, sv, <<"submit_form">>, "none")}
    ELSE GuardedInteraction(sv, "submittable", "submit_form", <<>>, <<"submit_form">>,
                            BrowserEngineError, BrowserEngineError, BrowserEngineError)

\* no capability check: the handle, when an element is given, goes straight
\* to engine.submit_current_input
_execute_submit_current_input(b, sv) ==
    IF ~b.element.present
    THEN {Outcome(EngineFailure(r, BrowserEngineError),
                  <<[Call("submit_current_input", NoHandle, <<>>) EXCEPT !.raised = (r # "ok")]>>,
                  sv, <<"submit_current_input">>, "none")
          : r \in EngineResults \ {"recognised"}}
    ELSE {Outcome(BrowserEngineError, <<>>, sv, <<"submit_current_input", "resolve">>, "none")}
         \cup {Outcome(EngineFailure(r, BrowserEngineError),
                       <<[Call("submit_current_input", h, <<>>) EXCEPT !.raised = (r # "ok")]>>,
                       sv, <<"submit_current_input", "resolve">>, "none")
               : r \in EngineResults \ {"recognised"}, h \in PageElements}

_execute_verify_text(b, sv) ==
    IF ~b.element.present
    THEN {Outcome(UnexpectedException, <<>>, sv, <<>>, "none")}
    ELSE {Outcome(BrowserEngineError, <<>>, sv, <<"resolve">>, "none")}
         \cup UNION {
            LET expected == _interpolate(b.match_value, sv)
            IN  IF expected.raised
                THEN {Outcome(expected.error, <<Call("get_element_text", h, <<>>)>>,
                              sv, <<"resolve">>, "none")}
                ELSE {Outcome(EngineFailure(r, VerificationMismatchError),
                              <<Call("get_element_text", h, <<>>),
                                [Call("verify_text", h, expected.value) EXCEPT !.raised = (r # "ok")]>>,
                              sv, <<"resolve", "verify_text">>, "none")
                      : r \in {"ok", "recognised", "Exception"}}
            : h \in PageElements}

_execute_verify_page_content(b, sv) ==
    LET expected == _interpolate(b.match_value, sv)
    IN  IF expected.raised THEN {Outcome(expected.error, <<>>, sv, <<>>, "none")}
        ELSE {Outcome(EngineFailure(r, BrowserEngineError),
                      <<[Call("verify_page_content", NoHandle, expected.value)
                            EXCEPT !.raised = (r # "ok")]>>,
                      sv, <<"verify_page_content">>, "none")
              : r \in EngineResults \ {"recognised"}}

\* dict assignment saved_values[key] = text
SetItem(sv, key, text) == [k \in DOMAIN sv \cup {key} |-> IF k = key THEN text ELSE sv[k]]

_execute_save_text(b, sv) ==
    IF ~b.element.present
    THEN {Outcome(UnexpectedException, <<>>, sv, <<"save_text">>, "none")}
    ELSE {Outcome(BrowserEngineError, <<>>, sv, <<"save_text", "resolve">>, "none")}
         \cup UNION {
            IF _check_capabilities(q)
            THEN {Outcome(IntentCapabilityMismatchError, <<q>>, sv, <<"save_text", "resolve">>, "none")}
            ELSE {Outcome(NoError, <<q, Call("get_element_text", q.handle, <<>>)>>,
                          SetItem(sv, b.key, text), <<"save_text", "resolve", "saved">>, "text")
                  : text \in PageTexts}
            : q \in UNION {CapabilityQuery(h, "readable") : h \in PageElements}}

\* the saved value is typed or compared on the resolved handle with no
\* capability check
_execute_use_saved_value(b, sv) ==
    IF b.key \notin DOMAIN sv THEN {Outcome(BrowserEngineError, <<>>, sv, <<>>, "none")}
    ELSE IF ~b.element.present
    THEN {Outcome(UnexpectedException, <<>>, sv, <<"use_saved_value">>, "none")}
    ELSE {Outcome(BrowserEngineError, <<>>, sv, <<"use_saved_value", "resolve">>, "none")}
         \cup UNION {
            CASE b.action = "enter_text" ->
                    {Outcome(EngineFailure(r, BrowserEngineError),
                             <<[Call("enter_text", h, sv[b.key]) EXCEPT !.raised = (r # "ok")]>>,
                             sv, <<"use_saved_value", "resolve">>, "none")
                     : r \in EngineResults \ {"recognised"}}
              [] b.action \in {"verify_equals", "verify_contains"} ->
                    {Outcome(EngineFailure(r, VerificationMismatchError),
                             <<[Call("verify_text", h, sv[b.key]) EXCEPT !.raised = (r # "ok")]>>,
                             sv, <<"use_saved_value", "resolve">>, "none")
                     : r \in {"ok", "recognised", "Exception"}}
              [] OTHER -> {Outcome(UnexpectedException, <<>>, sv, <<"use_saved_value", "resolve">>, "none")}
            : h \in PageElements}

_execute_delay(b, sv) == {Outcome(NoError, <<>>, sv, <<"delay">>, "none")}

\* the isinstance chain of _execute_block for the block types that are not
\* control flow
Handler(b, sv) ==
    CASE b.type = "open_page"            -> _execute_open_page(b, sv)
      [] b.type = "click_element"        -> _execute_click_element(b, sv)
      [] b.type = "enter_text"           -> _execute_enter_text(b, sv)
      [] b.type = "select_option"        -> _execute_select_option(b, sv)
      [] b.type = "upload_file"          -> _execute_upload_file(b, sv)
      [] b.type = "verify_text"          -> _execute_verify_text(b, sv)
      [] b.type = "save_text"            -> _execute_save_text(b, sv)
      [] b.type = "use_saved_value"      -> _execute_use_saved_value(b, sv)
      [] b.type = "submit_form"          -> _execute_submit_form(b, sv)
      [] b.type = "submit_current_input" -> _execute_submit_current_input(b, sv)
      [] b.type = "verify_page_content"  -> _execute_verify_page_content(b, sv)
      [] b.type = "delay"                -> _execute_delay(b, sv)
      [] OTHER -> {Outcome(UnexpectedException, <<>>, sv, <<>>, "none")}

\* ----------------------------------------------------------- conditions
\* _describe_condition interpolates the text it prints: the failure it raises
_describe_condition(c, sv) ==
    CASE c.kind = "text_match"          -> _interpolate(c.value, sv).error
      [] c.kind = "page_title_equals"   -> _interpolate(c.expected_title, sv).error
      [] c.kind = "url_contains"        -> _interpolate(c.expected_fragment, sv).error
      [] c.kind = "saved_value_equals"  -> _interpolate(c.expected_text, sv).error
      [] OTHER -> NoError

\* one return of _evaluate_condition: the failure it raised or the result,
\* and whether the element of the condition was resolved on the page
Evaluation(e, result, resolved) == [exc |-> e, result |-> result, resolved |-> resolved]

ConditionRaises == Evaluation(UnexpectedException, FALSE, FALSE)

OnBrowserEngineErrorRaised == Evaluation(BrowserEngineError, FALSE, FALSE)

\* except BrowserEngineError as e: the error is logged and the condition is
\* false
OnBrowserEngineError == Evaluation(NoError, FALSE, FALSE)

\* _evaluate_condition: the results it can return, or the failure it raises.
\* _resolve_with_confidence either returns a handle or raises a
\* BrowserEngineError, and so does the visibility query of the engine
_evaluate_condition(c, sv) ==
    CASE c.kind = "element_visible" ->
            IF ~c.element.present THEN {ConditionRaises}
            ELSE {OnBrowserEngineError} \cup {Evaluation(NoError, r, TRUE) : r \in BOOLEAN}
      [] c.kind = "url_contains" ->
            IF c.expected_fragment = <<>> THEN {ConditionRaises}
            ELSE {Evaluation(NoError, r, TRUE) : r \in BOOLEAN}
      [] c.kind = "saved_value_exists" ->
            IF c.value_ref = <<>> THEN {ConditionRaises}
            ELSE {Evaluation(NoError, c.value_ref \in DOMAIN sv, TRUE)}
      [] OTHER -> {ConditionRaises}

\* ---------------------------------------------------------------- flows
El == ElementRef(TxtA)

\* the blocks that may stand first in a modelled chain
FirstBlocks(next) ==
    {OpenPageBlock(TxtA, next), ClickElementBlock(El, next), ClickElementBlock(NoElement, next),
     SaveTextBlock(El, TxtB, next), EnterTextBlock(El, PhA, next), DelayBlock(next)}

\* the blocks that may stand last
LastBlocks(next) ==
    FirstBlocks(next) \cup
    {OpenPageBlock(PhA, next), EnterTextBlock(El, TxtA, next), EnterTextBlock(El, PhB, next),
     SelectOptionBlock(El, PhA, next), SelectOptionBlock(El, <<>>, next),
     UploadFileBlock(El, next), VerifyTextBlock(El, PhB, next),
     VerifyPageContentBlock(PhA, next), UseSavedValueBlock(El, TxtA, "enter_text", next),
     UseSavedValueBlock(El, TxtB, "verify_equals", next), SubmitFormBlock(El, next),
     SubmitCurrentInputBlock(El, next), SubmitCurrentInputBlock(NoElement, next)}

Conditions ==
    {Condition("element_visible", El, <<>>, <<>>),
     Condition("url_contains", NoElement, TxtA, <<>>),
     Condition("url_contains", NoElement, PhB, <<>>),
     Condition("saved_value_exists", NoElement, <<>>, TxtB)}

\* b1 -> b2: every block in second place after a delay and after a save_text
\* that stores the value the second block may read, and every first block in
\* front of a delay
ChainFlows ==
    {FlowGraph("b1", ("b1" :> x) @@ ("b2" :> y))
     : x \in {DelayBlock("b2"), SaveTextBlock(El, TxtB, "b2")}, y \in LastBlocks(None)}
    \cup {FlowGraph("b1", ("b1" :> x) @@ ("b2" :> DelayBlock(None))) : x \in FirstBlocks("b2")}

\* b1 = if (then b2 | else b3) -> b4
IfFlows ==
    {FlowGraph("b1", ("b1" :> IfConditionBlock(c, t, e, n))
                     @@ ("b2" :> ClickElementBlock(El, None))
                     @@ ("b3" :> SaveTextBlock(El, TxtB, None))
                     @@ ("b4" :> EnterTextBlock(El, PhB, None)))
     : c \in Conditions, t \in {<<>>, <<"b2">>}, e \in {<<>>, <<"b3">>}, n \in {None, "b4"}}

\* b1 = repeat (body b2) -> b3
RepeatFlows ==
    {FlowGraph("b1", ("b1" :> RepeatUntilBlock(c, body, m, n))
                     @@ ("b2" :> x)
                     @@ ("b3" :> DelayBlock(None)))
     : c \in Conditions, body \in {<<>>, <<"b2">>}, m \in 1..MaxIterations, n \in {None, "b3"},
       x \in {SaveTextBlock(El, TxtB, None), ClickElementBlock(El, None)}}

\* b1 = repeat (body b2 = if (then b3)): a control-flow block inside a loop
NestedFlows ==
    {FlowGraph("b1", ("b1" :> RepeatUntilBlock(Condition("saved_value_exists", NoElement, <<>>, TxtB),
                                               <<"b2">>, m, None))
                     @@ ("b2" :> IfConditionBlock(Condition("element_visible", El, <<>>, <<>>),
                                                  <<"b3">>, <<>>, None))
                     @@ ("b3" :> SaveTextBlock(El, TxtB, None)))
     : m \in 1..2}

\* flows whose entry block is the next block or the branch of another block
NonRootFlows ==
    {FlowGraph("b2", ("b1" :> DelayBlock("b2")) @@ ("b2" :> ClickElementBlock(El, None))),
     FlowGraph("b2", ("b1" :> IfConditionBlock(Condition("element_visible", El, <<>>, <<>>),
                                               <<"b2">>, <<>>, None))
                     @@ ("b2" :> DelayBlock(None)))}

\* flows with a reference to a block that does not exist
DanglingFlows ==
    {FlowGraph("b1", ("b1" :> DelayBlock("b9"))),
     FlowGraph("b9", ("b1" :> DelayBlock(None)))}

\* flows in which a next_block is the empty string
EmptyNextFlows ==
    {FlowGraph("b1", ("b1" :> DelayBlock(EmptyId))),
     FlowGraph("b1", ("b1" :> IfConditionBlock(Condition("saved_value_exists", NoElement, <<>>, TxtB),
                                               <<"b2">>, <<>>, EmptyId))
                     @@ ("b2" :> DelayBlock(None))),
     FlowGraph("b1", ("b1" :> RepeatUntilBlock(Condition("saved_value_exists", NoElement, <<>>, TxtA),
                                               <<>>, 1, EmptyId)))}

\* flows in which the name of an element reference holds a placeholder
PlaceholderNameFlows ==
    {FlowGraph("b1", ("b1" :> ClickElementBlock(ElementRef(PhA), None))),
     FlowGraph("b1", ("b1" :> UseSavedValueBlock(ElementRef(PhA), TxtA, "enter_text", None))),
     FlowGraph("b1", ("b1" :> IfConditionBlock(Condition("element_visible", ElementRef(PhA), <<>>, <<>>),
                                               <<>>, <<>>, None)))}

\* flows whose next_block references form a cycle that leaves the entry block
\* out, and the chain of the same blocks without the cycle
CycleFlows ==
    {FlowGraph("b1", ("b1" :> DelayBlock("b2")) @@ ("b2" :> DelayBlock("b3"))
                     @@ ("b3" :> DelayBlock(last)))
     : last \in {None, "b2", "b3"}}

Flows ==
    ChainFlows \cup IfFlows \cup RepeatFlows \cup NestedFlows \cup NonRootFlows
    \cup DanglingFlows \cup EmptyNextFlows \cup PlaceholderNameFlows

EmptyDict == [k \in {} |-> <<>>]

\* the variables a run can be seeded with
InitialVariables == {EmptyDict, [k \in {TxtA} |-> TxtB]}

\* ---------------------------------------------------- element resolution
\* the confidence tiers of models.py ElementRef
Confidences == {"high", "low", "declared"}

\* models.py ElementRef as the resolvers and the retry policy read it: region
\* says that context holds a region, system_role that a system role is set
TargetRef(intent_type, name_source, region, confidence, system_role, verification_required) ==
    [intent_type |-> intent_type, name_source |-> name_source, region |-> region,
     confidence |-> confidence, system_role |-> system_role,
     verification_required |-> verification_required]

ElementMissingError == WebLensFailure("ElementMissingError", "APP", "CERTAIN")

ElementAmbiguousError == WebLensFailure("ElementAmbiguousError", "ENGINE", "HEURISTIC")

\* the most words of a reference name that one element name can share
MaxWords == 3

\* how the accessible name of an element compares with the reference name
NameMatches == {"equal", "includes", "words", "none"}

\* a visible element of the page as findSemantic scores it against the
\* reference: the name comparison (words is the size of the word
\* intersection), the attributes that equal the reference's, an anchor
\* element within the radius of influence, an anchor whose parent contains it
Signals(name, words, testId, ariaLabel, role, placeholder, title, tagName, near, inside) ==
    [name |-> name, words |-> words, testId |-> testId, ariaLabel |-> ariaLabel,
     role |-> role, placeholder |-> placeholder, title |-> title, tagName |-> tagName,
     near |-> near, inside |-> inside]

Weight(matches, w) == IF matches THEN w ELSE 0

\* 2. Name Match: equality, substring in either direction, word intersection
NameScore(e) ==
    CASE e.name = "equal"    -> 12
      [] e.name = "includes" -> 8
      [] e.name = "words"    -> e.words * 4
      [] OTHER -> 0

\* the score of an element inside search()
SignalScore(e) ==
    Weight(e.testId, 15) + NameScore(e) + Weight(e.ariaLabel, 8) + Weight(e.role, 5)
    + Weight(e.placeholder, 3) + Weight(e.title, 3) + Weight(e.tagName, 1)

\* if (score > 5) candidates.push(...)
Threshold == 5

IsCandidate(e) == SignalScore(e) > Threshold

\* 7. Proximity Bonus, added to the elements that are candidates
CandidateScore(e) == SignalScore(e) + Weight(e.near, 5) + Weight(e.inside, 3)

CandidatesOf(elements) == {i \in 1..Len(elements) : IsCandidate(elements[i])}

\* candidates.sort by score, descending, ties left in document order;
\* candidates[0]
BestCandidate(elements) ==
    CHOOSE i \in CandidatesOf(elements) :
        \A j \in CandidatesOf(elements) :
            \/ CandidateScore(elements[i]) > CandidateScore(elements[j])
            \/ CandidateScore(elements[i]) = CandidateScore(elements[j]) /\ i <= j

\* what a resolver hands back: a failure, or a value that is the element of
\* the page at a position or a tuple that holds it with a score in twentieths
Throws(e) == [exc |-> e, tuple |-> FALSE, element |-> 0, score |-> 0]

Gives(tuple, element, score) ==
    [exc |-> NoError, tuple |-> tuple, element |-> element, score |-> score]

\* findSemantic run through engine.execute_script: with no candidate
\* candidates[0] is undefined, best.el throws, and execute_script raises
\* BrowserEngineError for the script that failed
JS_FIND_SEMANTIC(elements) ==
    IF CandidatesOf(elements) = {} THEN Throws(BrowserEngineError)
    ELSE Gives(FALSE, BestCandidate(elements), CandidateScore(elements[BestCandidate(elements)]))

\* norm_score = min(1.0, raw_score / 20.0) if raw_score > 0 else 0
NormScore(raw_score) == IF raw_score > 20 THEN 20 ELSE raw_score

\* findInRegion: the elements of the region whose role is the reference's
JS_FIND_IN_REGION(matches) ==
    IF matches = 0 THEN "no_match"
    ELSE IF matches > 1 THEN "multiple_matches"
    ELSE "element"

\* except BrowserEngineError: raise / except Exception as e: raise
\* BrowserEngineError(...)
RegionTryLeaves(e) == IF e.base = "BrowserEngineError" THEN e ELSE BrowserEngineError

\* STRICT: Require high confidence (threshold = 25)
StructuralFloor == 25

BelowFloorNever(score) == FALSE

\* if (best.score < 25)
BelowFloor(score) == score < StructuralFloor

StructuralCandidates(scores) == {i \in 1..Len(scores) : scores[i] > 0}

BestStructural(scores) ==
    CHOOSE i \in StructuralCandidates(scores) :
        \A j \in StructuralCandidates(scores) :
            scores[i] > scores[j] \/ (scores[i] = scores[j] /\ i <= j)

\* resolveStructuralIntent over the scores of the interactive elements of the
\* region, in document order
JS_STRUCTURAL_RESOLVE(scores) ==
    IF StructuralCandidates(scores) = {} THEN "no_candidates"
    ELSE IF BelowFloor(scores[BestStructural(scores)]) THEN "low_confidence"
    ELSE "element"

\* StructuralResolver.resolve: the ValueError of a reference without a system
\* role, the BrowserEngineError of the two error results, or result['element']
StructuralResolver_resolve(ref, scores) ==
    IF ~ref.system_role THEN Throws(UnexpectedException)
    ELSE IF JS_STRUCTURAL_RESOLVE(scores) = "element"
    THEN Gives(FALSE, BestStructural(scores), scores[BestStructural(scores)])
    ELSE Throws(BrowserEngineError)

\* the page as the three scripts see it
Page(elements, matches, scores) ==
    [elements |-> elements, matches |-> matches, scores |-> scores]

\* ElementResolver.resolve: structural, region-scoped or MAWS; the last two
\* return the tuple (element, score, actuals)
resolve(ref, page) ==
    IF ref.intent_type = "structural" THEN StructuralResolver_resolve(ref, page.scores)
    ELSE IF ref.name_source = "user_declared" /\ ref.region
    THEN CASE JS_FIND_IN_REGION(page.matches) = "no_match" ->
                Throws(RegionTryLeaves(ElementMissingError))
           [] JS_FIND_IN_REGION(page.matches) = "multiple_matches" ->
                Throws(RegionTryLeaves(ElementAmbiguousError))
           [] OTHER -> Gives(TRUE, 1, 20)
    ELSE LET result == JS_FIND_SEMANTIC(page.elements)
         IN  IF result.exc # NoError THEN result
             ELSE Gives(TRUE, result.element, NormScore(result.score))

\* ---------------------------------------------------------------- state
VARIABLES
    flow,             \* the FlowGraph submitted for execution
    entry_point,      \* the caller that received it
    on_event,         \* BlockInterpreter.on_event is set
    run,              \* "not_started", "rejected", "running", "finished"
    stack,            \* the call stack of _execute_block activations
    exc,              \* the exception propagating up the stack, or NoError
    saved_values,     \* InterpreterContext.saved_values
    executed_blocks,  \* InterpreterContext.executed_blocks
    current_taf,      \* InterpreterContext.current_taf
    current_evidence, \* InterpreterContext.current_evidence
    report,           \* InterpreterContext.report
    result,           \* the ExecutionResult execute_flow returned
    events,           \* the calls of on_event, in order
    calls,            \* the engine calls of the handler of the block in its cycle
    cond_evals,       \* the calls of _evaluate_condition with what they gave, in order
    itext,            \* _interpolate alone: its argument,
    isaved,           \*   the saved values it reads,
    iresult,          \*   and what it returned or raised
    rcall,            \* one block that resolves an element: the block, the page
    rpc,              \*   where its handler stands
    attempt,          \*   attempt of _resolve_with_confidence
    elapsed,          \*   tenths of a second since the handler started
    rlog,             \*   the calls of resolver.resolve with what they gave
    rhandle,          \*   handle, what _resolve_with_confidence returned
    rverified,        \*   verified of _verify_structural_outcome
    rtaf,             \*   context.current_taf
    rstatus,          \*   status of the block
    rexc,             \*   the exception that left the handler
    event_queues,     \* execution_manager.event_queues: run id -> its queue.Queue
    queue,            \*   the items waiting in the queue.Queue made for each run
    puts,             \*   every item put in that queue, in order
    delivered,        \*   the items the generator of stream_status yielded
    execution_history, \* execution_manager.execution_history, in insertion order
    thread,           \* execute_flow_background of each run: its position and locals
    contexts,         \* the InterpreterContext objects: saved_values, report.blocks
    consumer,         \* stream_status of each run: its position
    cleanup,          \* delayed_cleanup of each run: its position
    deleter,          \* delete_execution_data of each run: its position
    key_errors        \* the steps that raised KeyError

runVars ==
    <<flow, entry_point, on_event, run, stack, exc, saved_values, executed_blocks,
      current_taf, current_evidence, report, result, events, calls, cond_evals>>

interpVars == <<itext, isaved, iresult>>

resolveVars == <<rcall, rpc, attempt, elapsed, rlog, rhandle, rverified, rtaf, rstatus, rexc>>

managerVars ==
    <<event_queues, queue, puts, delivered, execution_history, thread, contexts, consumer,
      cleanup, deleter, key_errors>>

vars == <<runVars, interpVars, resolveVars, managerVars>>

\* models.py UserFacingError, the fields the claims read
UserFacingError(title, owner, determinism, category, related) ==
    [title |-> title, owner |-> owner, determinism |-> determinism,
     category |-> category, related_block_id |-> related]

NoUserError == UserFacingError("none", "none", "none", "none", None)

\* models.py ExecutionReport as InterpreterContext.__init__ creates it
NewReport == [success |-> "unset", finished_at |-> FALSE, error |-> NoUserError, blocks |-> <<>>]

\* models.py ExecutionResult
ExecutionResult(success, message, error, error_block_id) ==
    [success |-> success, message |-> message, error |-> error,
     error_block_id |-> error_block_id]

NoResult == ExecutionResult("unset", "none", NoUserError, None)

Frame(id) == [block |-> id, pc |-> "enter", status |-> "started", iteration |-> 0, index |-> 0]

Top == stack[Len(stack)]

Pop(st) == SubSeq(st, 1, Len(st) - 1)

SetTop(st, f) == [st EXCEPT ![Len(st)] = f]

Msg(src, m) == [src |-> src, msg |-> m]

Msgs(src, ms) == [i \in 1..Len(ms) |-> Msg(src, ms[i])]

NoInterp == [called |-> FALSE, raised |-> FALSE, value |-> <<>>, error |-> NoError]

RunIdle ==
    /\ entry_point = "none"
    /\ on_event = FALSE
    /\ run = "not_started"
    /\ stack = <<>>
    /\ exc = NoError
    /\ saved_values = EmptyDict
    /\ executed_blocks = <<>>
    /\ current_taf = <<>>
    /\ current_evidence = "none"
    /\ report = NewReport
    /\ result = NoResult
    /\ events = <<>>
    /\ calls = <<>>
    /\ cond_evals = <<>>

\* no _interpolate call of its own
InterpIdle ==
    /\ itext = <<>>
    /\ isaved = EmptyDict
    /\ iresult = NoInterp

\* the arguments of one handler that resolves an element, the page it runs
\* against and the time at which the elements of the page appear
ResolutionCall(caller, ref, timeout, page, appears_at) ==
    [caller |-> caller, ref |-> ref, timeout |-> timeout, page |-> page,
     appears_at |-> appears_at]

NoResolutionCall ==
    ResolutionCall("none", TargetRef("semantic", "native", FALSE, "high", FALSE, FALSE), 0,
                   Page(<<>>, 0, <<>>), 0)

ResolveIdle ==
    /\ rcall = NoResolutionCall
    /\ rpc = "idle"
    /\ attempt = 0
    /\ elapsed = 0
    /\ rlog = <<>>
    /\ rhandle = Throws(NoError)
    /\ rverified = "none"
    /\ rtaf = <<>>
    /\ rstatus = "none"
    /\ rexc = NoError

\* no run handed to the execution manager
ManagerIdle ==
    /\ event_queues = <<>>
    /\ queue = <<>>
    /\ puts = <<>>
    /\ delivered = <<>>
    /\ execution_history = <<>>
    /\ thread = <<>>
    /\ contexts = <<>>
    /\ consumer = <<>>
    /\ cleanup = <<>>
    /\ deleter = <<>>
    /\ key_errors = {}

Init ==
    /\ flow \in Flows
    /\ RunIdle
    /\ InterpIdle
    /\ ResolveIdle
    /\ ManagerIdle

\* ---------------------------------------------------------- entry points
\* BlockInterpreter.execute_flow up to the first _execute_block call
InterpreterExecuteFlow(initial_variables, listener) ==
    /\ on_event' = listener
    /\ IF validate_references(flow) # {}
       THEN /\ run' = "rejected"
            /\ result' = ExecutionResult("false", "Flow validation failed", NoUserError, None)
            /\ UNCHANGED <<stack, saved_values, current_taf>>
       ELSE /\ run' = "running"
            /\ saved_values' = initial_variables
            /\ current_taf' = <<Msg("flow", "Starting flow")>>
            /\ stack' = <<Frame(flow.entry_block)>>
            /\ UNCHANGED result
    /\ UNCHANGED <<flow, exc, executed_blocks, current_evidence, report, events, calls,
                   cond_evals, interpVars, resolveVars, managerVars>>

\* main.py start_execution (POST /api/execute/start): the execution gate, then
\* execution_manager.execute_flow_background with a queue listener
StartExecution ==
    /\ run = "not_started"
    /\ entry_point' = "start_execution"
    /\ IF validate_completeness(flow) # {} \/ ~is_root(flow)
       THEN /\ run' = "rejected"
            /\ UNCHANGED <<flow, on_event, stack, exc, saved_values, executed_blocks,
                           current_taf, current_evidence, report, result, events, calls,
                           cond_evals, interpVars, resolveVars, managerVars>>
       ELSE \E v \in InitialVariables : InterpreterExecuteFlow(v, TRUE)

\* main.py execute_flow (POST /api/flows/execute): no listener, no variables
ExecuteFlowSync ==
    /\ run = "not_started"
    /\ entry_point' = "execute_flow_sync"
    /\ InterpreterExecuteFlow(EmptyDict, FALSE)

\* main.py run_scenario_suite: one scenario of the suite, with its variables
RunScenarioSuite ==
    /\ run = "not_started"
    /\ entry_point' = "run_scenario_suite"
    /\ \E v \in InitialVariables : InterpreterExecuteFlow(v, TRUE)

\* BlockInterpreter.execute_flow called on its own
ExecuteFlowDirect ==
    /\ run = "not_started"
    /\ entry_point' = "interpreter"
    /\ \E v \in InitialVariables : InterpreterExecuteFlow(v, FALSE)

\* ------------------------------------------------------- _execute_block
\* what on_event receives
Event(id, status, taf, duration_ms, screenshot, evidence) ==
    [block_id |-> id, status |-> status, taf |-> taf, duration_ms |-> duration_ms,
     screenshot |-> screenshot, evidence |-> evidence]

RunningEvent(id) == Event(id, "running", <<>>, 0, "none", "none")

\* models.py BlockExecution
BlockExecution(id, type, status, duration_ms, taf, screenshot, evidence) ==
    [block_id |-> id, block_type |-> type, status |-> status, duration_ms |-> duration_ms,
     taf |-> taf, screenshot |-> screenshot, tier_2_evidence |-> evidence]

\* the elapsed times a block can take
Durations == {1, 2}

Emit(evs, e) == IF on_event THEN Append(evs, e) ELSE evs

Running == run = "running" /\ stack # <<>>

\* _execute_block from its call to the dispatch: the early return on None, the
\* block lookup (ValueError) or the call that exceeds the recursion limit
\* (RecursionError), mark_executed, the "running" event and the TAF reset
ExecuteBlockEnter ==
    /\ Running
    /\ Top.pc = "enter"
    /\ exc = NoError
    /\ LET id == Top.block
       IN  IF id = None
           THEN /\ current_taf' = Append(current_taf, Msg("flow", "Reached end of flow"))
                /\ stack' = Pop(stack)
                /\ UNCHANGED <<exc, executed_blocks, events, calls>>
           ELSE IF id \notin BlockIds(flow) \/ Len(stack) > RecursionLimit
           THEN /\ exc' = UnexpectedException
                /\ stack' = Pop(stack)
                /\ UNCHANGED <<current_taf, executed_blocks, events, calls>>
           ELSE /\ executed_blocks' = Append(executed_blocks, id)
                /\ events' = Emit(events, RunningEvent(id))
                /\ current_taf' = <<>>
                /\ calls' = <<>>
                /\ stack' = SetTop(stack, [Top EXCEPT !.pc = "dispatch",
                                                      !.index = Len(executed_blocks) + 1])
                /\ UNCHANGED exc
    /\ UNCHANGED <<flow, entry_point, on_event, run, saved_values, current_evidence, report,
                   result, cond_evals, interpVars, resolveVars, managerVars>>

\* the handler of a block that is not control flow runs to its end
DispatchBlock ==
    /\ Running
    /\ Top.pc = "dispatch"
    /\ exc = NoError
    /\ get_block_by_id(flow, Top.block).type \notin ControlTypes
    /\ \E o \in Handler(get_block_by_id(flow, Top.block), saved_values) :
          /\ calls' = o.calls
          /\ saved_values' = o.sv
          /\ current_taf' = current_taf \o Msgs(Top.block, o.taf)
          /\ current_evidence' = o.evidence
          /\ exc' = o.exc
          /\ stack' = SetTop(stack, [Top EXCEPT
                         !.pc = "finally",
                         !.status = IF o.exc = NoError THEN "success" ELSE "failed"])
    /\ UNCHANGED <<flow, entry_point, on_event, run, executed_blocks, report, result, events,
                   cond_evals, interpVars, resolveVars, managerVars>>

\* self._evaluate_condition(block.condition) in the activation f of a
\* control-flow block: what it returned or raised
ConditionResult(f, ev) ==
    [block |-> f.block, index |-> f.index, exc |-> ev.exc, result |-> ev.result,
     resolved |-> ev.resolved]

ChosenBranchThenFirst(b, condition_result) ==
    IF b.then_blocks # <<>> THEN b.then_blocks[1]
    ELSE IF ~condition_result /\ b.else_blocks # <<>> THEN b.else_blocks[1]
    ELSE None

\* the branch _execute_if_condition starts for a condition result
ChosenBranch(b, condition_result) ==
    IF condition_result /\ b.then_blocks # <<>> THEN b.then_blocks[1]
    ELSE IF ~condition_result /\ b.else_blocks # <<>> THEN b.else_blocks[1]
    ELSE None

\* _execute_if_condition up to the call that starts the chosen branch
ExecuteIfCondition ==
    /\ Running
    /\ Top.pc = "dispatch"
    /\ exc = NoError
    /\ get_block_by_id(flow, Top.block).type = "if_condition"
    /\ LET b == get_block_by_id(flow, Top.block)
           d == _describe_condition(b.condition, saved_values)
       IN  IF d # NoError
           THEN /\ exc' = d
                /\ stack' = SetTop(stack, [Top EXCEPT !.pc = "finally", !.status = "failed"])
                /\ UNCHANGED <<current_taf, cond_evals>>
           ELSE \E ev \in _evaluate_condition(b.condition, saved_values) :
                  IF ev.exc # NoError
                  THEN /\ exc' = ev.exc
                       /\ stack' = SetTop(stack, [Top EXCEPT !.pc = "finally", !.status = "failed"])
                       /\ cond_evals' = Append(cond_evals, ConditionResult(Top, ev))
                       /\ UNCHANGED current_taf
                  ELSE /\ exc' = NoError
                       /\ cond_evals' = Append(cond_evals, ConditionResult(Top, ev))
                       /\ current_taf' = Append(current_taf, Msg(Top.block, "if_condition"))
                       /\ LET waiting == SetTop(stack, [Top EXCEPT !.pc = "branch", !.status = "success"])
                              branch  == ChosenBranch(b, ev.result)
                          IN  stack' = IF branch # None THEN Append(waiting, Frame(branch))
                                       ELSE waiting
    /\ UNCHANGED <<flow, entry_point, on_event, run, saved_values, executed_blocks,
                   current_evidence, report, result, events, calls, interpVars, resolveVars, managerVars>>

\* _execute_if_condition after the branch returned: the call on next_block
ContinueAfterBranch ==
    /\ Running
    /\ Top.pc = "branch"
    /\ exc = NoError
    /\ stack' = Append(SetTop(stack, [Top EXCEPT !.pc = "after_next"]),
                       Frame(get_block_by_id(flow, Top.block).next_block))
    /\ UNCHANGED <<flow, entry_point, on_event, run, exc, saved_values, executed_blocks,
                   current_taf, current_evidence, report, result, events, calls, cond_evals,
                   interpVars, resolveVars, managerVars>>

\* _execute_repeat_until before its loop: the description, iteration = 0
ExecuteRepeatUntil ==
    /\ Running
    /\ Top.pc = "dispatch"
    /\ exc = NoError
    /\ get_block_by_id(flow, Top.block).type = "repeat_until"
    /\ LET d == _describe_condition(get_block_by_id(flow, Top.block).condition, saved_values)
       IN  IF d # NoError
           THEN /\ exc' = d
                /\ stack' = SetTop(stack, [Top EXCEPT !.pc = "finally", !.status = "failed"])
           ELSE /\ exc' = NoError
                /\ stack' = SetTop(stack, [Top EXCEPT !.pc = "loop", !.status = "success",
                                                      !.iteration = 0])
    /\ UNCHANGED <<flow, entry_point, on_event, run, saved_values, executed_blocks, current_taf,
                   current_evidence, report, result, events, calls, cond_evals, interpVars, resolveVars, managerVars>>

LoopTestOffByOne(iteration, max_iterations) == iteration <= max_iterations

\* while iteration < block.max_iterations
LoopTest(iteration, max_iterations) == iteration < max_iterations

\* the loop test, then either the start of the body of one more iteration or
\* the else clause of the while: the loop-safety BrowserEngineError
RepeatIteration ==
    /\ Running
    /\ Top.pc = "loop"
    /\ exc = NoError
    /\ LET b == get_block_by_id(flow, Top.block)
       IN  IF LoopTest(Top.iteration, b.max_iterations)
           THEN LET waiting == SetTop(stack, [Top EXCEPT !.pc = "condition",
                                                         !.iteration = Top.iteration + 1])
                IN  /\ stack' = IF b.body_blocks # <<>>
                                THEN Append(waiting, Frame(b.body_blocks[1]))
                                ELSE waiting
                    /\ UNCHANGED exc
           ELSE /\ exc' = BrowserEngineError
                /\ stack' = SetTop(stack, [Top EXCEPT !.pc = "finally", !.status = "failed"])
    /\ UNCHANGED <<flow, entry_point, on_event, run, saved_values, executed_blocks, current_taf,
                   current_evidence, report, result, events, calls, cond_evals, interpVars, resolveVars, managerVars>>

\* the condition after the body returned: break and call next_block, or loop
RepeatCondition ==
    /\ Running
    /\ Top.pc = "condition"
    /\ exc = NoError
    /\ LET b == get_block_by_id(flow, Top.block)
       IN  \E ev \in _evaluate_condition(b.condition, saved_values) :
              IF ev.exc # NoError
              THEN /\ exc' = ev.exc
                   /\ stack' = SetTop(stack, [Top EXCEPT !.pc = "finally", !.status = "failed"])
                   /\ cond_evals' = Append(cond_evals, ConditionResult(Top, ev))
                   /\ UNCHANGED current_taf
              ELSE /\ exc' = NoError
                   /\ cond_evals' = Append(cond_evals, ConditionResult(Top, ev))
                   /\ current_taf' = Append(current_taf, Msg(Top.block, "repeat_loop"))
                   /\ stack' = IF ev.result
                               THEN Append(SetTop(stack, [Top EXCEPT !.pc = "after_next"]),
                                           Frame(b.next_block))
                               ELSE SetTop(stack, [Top EXCEPT !.pc = "loop"])
    /\ UNCHANGED <<flow, entry_point, on_event, run, saved_values, executed_blocks,
                   current_evidence, report, result, events, calls, interpVars, resolveVars, managerVars>>

\* the try of _execute_block is left: by a handler that finished, by the
\* return of a control-flow block whose handler came back, or by an exception
LeavesTry(f) ==
    \/ f.pc = "finally"
    \/ f.pc = "after_next"
    \/ exc # NoError /\ f.pc \in {"branch", "condition"}

ReRaiseSwallowed(e) == NoError

\* except Exception as e: status = "failed"; raise e
ReRaise(e) == e

CompletionEventAlwaysSuccess(id, status, taf, duration_ms, screenshot, evidence) ==
    Event(id, "success", taf, duration_ms, screenshot, evidence)

\* the event emitted after the record is appended
CompletionEvent(id, status, taf, duration_ms, screenshot, evidence) ==
    Event(id, status, taf, duration_ms, screenshot, evidence)

\* the finally clause of _execute_block and what follows it: the record, the
\* completion event, then the exception goes on, or the control-flow handler
\* returns, or next_block is called
Finally ==
    /\ Running
    /\ Top.pc # "enter"
    /\ LeavesTry(Top)
    /\ LET id     == Top.block
           b      == get_block_by_id(flow, id)
           status == IF exc # NoError THEN "failed" ELSE Top.status
       IN  \E duration_ms \in Durations, screenshot \in {"image", "none"} :
             LET taf_bundle == current_taf
                 flushed    == IF screenshot = "none"
                               THEN <<Msg(id, "Step visual capture unavailable")>>
                               ELSE <<>>
             IN  /\ report' = [report EXCEPT !.blocks = Append(@,
                                  BlockExecution(id, b.type, status, duration_ms, taf_bundle,
                                                 screenshot, current_evidence))]
                 /\ events' = Emit(events, CompletionEvent(id, status, taf_bundle, duration_ms,
                                                           screenshot, current_evidence))
                 /\ current_evidence' = "none"
                 /\ calls' = <<>>
                 /\ exc' = ReRaise(exc)
                 /\ IF ReRaise(exc) # NoError \/ b.type \in ControlTypes
                    THEN /\ stack' = Pop(stack)
                         /\ current_taf' = flushed
                    ELSE IF Truthy(b.next_block)
                    THEN /\ stack' = Append(SetTop(stack, [Top EXCEPT !.pc = "tail", !.status = status]),
                                            Frame(b.next_block))
                         /\ current_taf' = Append(flushed, Msg(id, "Transitioning"))
                    ELSE /\ stack' = Pop(stack)
                         /\ current_taf' = Append(flushed, Msg(id, "Flow complete"))
    /\ UNCHANGED <<flow, entry_point, on_event, run, saved_values, executed_blocks, result,
                   cond_evals, interpVars, resolveVars, managerVars>>

\* _execute_block(next_id, flow) came back, normally or with the exception
ReturnFromNext ==
    /\ Running
    /\ Top.pc = "tail"
    /\ stack' = Pop(stack)
    /\ UNCHANGED <<flow, entry_point, on_event, run, exc, saved_values, executed_blocks,
                   current_taf, current_evidence, report, result, events, calls, cond_evals,
                   interpVars, resolveVars, managerVars>>

\* ------------------------------------------- the end of execute_flow
\* context.executed_blocks[-1] if context.executed_blocks else None
LastExecuted == IF executed_blocks # <<>> THEN executed_blocks[Len(executed_blocks)] ELSE None

\* the isinstance chain that maps a WebLensFailure to an ErrorCategory
Category(e) ==
    CASE e.kind \in {"ElementMissingError", "ElementHiddenError", "ElementAmbiguousError"}
            -> "ELEMENT_RESOLUTION"
      [] e.kind = "VerificationMismatchError" -> "LOGIC"
      [] e.kind = "InteractionBlockedError"   -> "TIMING_STATE"
      [] e.kind = "VariableMissingError"      -> "CONFIGURATION"
      [] OTHER -> "UNSUPPORTED_ACTION"

\* errors.py ErrorFactory.unknown_error: no owner, no determinism
unknown_error(block_id) ==
    UserFacingError("Unexpected Error", "none", "none", "UNSUPPORTED_ACTION", block_id)

Returned == run = "running" /\ stack = <<>>

ClosedReportNoTime(rep, success, error) == [rep EXCEPT !.success = success, !.error = error]

\* report.finished_at = time.time(); report.success = ...; report.error = ...
ClosedReport(rep, success, error) ==
    [rep EXCEPT !.finished_at = TRUE, !.success = success, !.error = error]

\* the try of execute_flow returned from _execute_block
FinishSuccess ==
    /\ Returned
    /\ exc = NoError
    /\ run' = "finished"
    /\ report' = ClosedReport(report, "true", report.error)
    /\ result' = ExecutionResult("true", "completed successfully", NoUserError, None)
    /\ UNCHANGED <<flow, entry_point, on_event, stack, exc, saved_values, executed_blocks,
                   current_taf, current_evidence, events, calls, cond_evals, interpVars, resolveVars, managerVars>>

\* except WebLensFailure
CatchWebLensFailure ==
    /\ Returned
    /\ exc.base = "WebLensFailure"
    /\ LET user_error == UserFacingError(exc.kind, exc.owner, exc.determinism, Category(exc),
                                         LastExecuted)
       IN  /\ report' = ClosedReport(report, "false", user_error)
           /\ result' = ExecutionResult("false", exc.kind, user_error, LastExecuted)
    /\ run' = "finished"
    /\ exc' = NoError
    /\ current_taf' = Append(current_taf, Msg("flow", "Action Failed"))
    /\ UNCHANGED <<flow, entry_point, on_event, stack, saved_values, executed_blocks,
                   current_evidence, events, calls, cond_evals, interpVars, resolveVars, managerVars>>

\* except BrowserEngineError: getattr(e, 'user_error', None) is None
CatchBrowserEngineError ==
    /\ Returned
    /\ exc.base = "BrowserEngineError"
    /\ LET user_error == unknown_error(LastExecuted)
       IN  /\ report' = ClosedReport(report, "false", user_error)
           /\ result' = ExecutionResult("false", exc.kind, user_error, LastExecuted)
    /\ run' = "finished"
    /\ exc' = NoError
    /\ current_taf' = Append(current_taf, Msg("flow", "Error"))
    /\ UNCHANGED <<flow, entry_point, on_event, stack, saved_values, executed_blocks,
                   current_evidence, events, calls, cond_evals, interpVars, resolveVars, managerVars>>

\* except Exception: the report is closed, report.error is not assigned
CatchException ==
    /\ Returned
    /\ exc.base = "Exception"
    /\ report' = ClosedReport(report, "false", report.error)
    /\ result' = ExecutionResult("false", "Unexpected error during execution", NoUserError,
                                 LastExecuted)
    /\ run' = "finished"
    /\ exc' = NoError
    /\ current_taf' = Append(current_taf, Msg("flow", "Unexpected error during execution"))
    /\ UNCHANGED <<flow, entry_point, on_event, stack, saved_values, executed_blocks,
                   current_evidence, events, calls, cond_evals, interpVars, resolveVars, managerVars>>

\* ------------------------------------------------------- specification
Next ==
    \/ StartExecution
    \/ ExecuteFlowSync
    \/ RunScenarioSuite
    \/ ExecuteFlowDirect
    \/ ExecuteBlockEnter
    \/ DispatchBlock
    \/ ExecuteIfCondition
    \/ ContinueAfterBranch
    \/ ExecuteRepeatUntil
    \/ RepeatIteration
    \/ RepeatCondition
    \/ Finally
    \/ ReturnFromNext
    \/ FinishSuccess
    \/ CatchWebLensFailure
    \/ CatchBrowserEngineError
    \/ CatchException

Spec == Init /\ [][Next]_vars

\* a run of a flow of three delay blocks started through the execution gate
InitCycle ==
    /\ flow \in CycleFlows
    /\ RunIdle
    /\ InterpIdle
    /\ ResolveIdle
    /\ ManagerIdle

NextCycle ==
    \/ StartExecution
    \/ ExecuteBlockEnter
    \/ DispatchBlock
    \/ Finally
    \/ ReturnFromNext
    \/ FinishSuccess
    \/ CatchException

SpecCycle == InitCycle /\ [][NextCycle]_vars

\* ------------------------------------------- _interpolate on its own
\* the saved values _interpolate is called with
InterpSaved ==
    {EmptyDict,
     <<"a">> :> <<"a", " ">>,
     <<"a">> :> <<"{", "{", "a", "}", "}">>,
     <<"a">> :> <<"{", "{", "a", "}", "}", "a">>,
     <<"a", " ", "a">> :> <<>>}

\* an interpreter with a context and no run under way
IdleFlow == FlowGraph("b1", "b1" :> DelayBlock(None))

InitInterp ==
    /\ flow = IdleFlow
    /\ RunIdle
    /\ ResolveIdle
    /\ ManagerIdle
    /\ itext \in Texts
    /\ isaved \in InterpSaved
    /\ iresult = NoInterp

\* one call _interpolate(itext) with saved_values = isaved
Interpolate ==
    /\ ~iresult.called
    /\ LET r == _interpolate(itext, isaved)
       IN  iresult' = [called |-> TRUE, raised |-> r.raised, value |-> r.value,
                       error |-> r.error]
    /\ UNCHANGED <<runVars, itext, isaved, resolveVars, managerVars>>

NextInterp == Interpolate

SpecInterp == InitInterp /\ [][NextInterp]_vars

\* ---------------------------------- a block that resolves an element
\* times are in tenths of a second
\* the attempts and the wait between them that a confidence tier gives
MaxRetriesOf(confidence) ==
    CASE confidence = "high" -> 2
      [] confidence = "low"  -> 5
      [] OTHER -> 3

WaitIntervalOf(confidence) ==
    CASE confidence = "high" -> 5
      [] confidence = "low"  -> 20
      [] OTHER -> 10

Max(a, b) == IF a >= b THEN a ELSE b

max_retriesRoundedUp(ref, timeout) ==
    IF timeout > 0 THEN timeout \div WaitIntervalOf(ref.confidence) + 1
    ELSE MaxRetriesOf(ref.confidence)

\* max_retries after the override: timeout = 0 is timeout=None
max_retries(ref, timeout) ==
    IF timeout > 0 THEN Max(1, timeout \div WaitIntervalOf(ref.confidence))
    ELSE MaxRetriesOf(ref.confidence)

WaitsAfterEvery(a, max) == TRUE

\* if attempt < max_retries - 1
WaitsAfter(a, max) == a < max - 1

\* InterpreterContext.emit_taf: a channel the bundle does not have is dropped
emit_taf(taf, channel, message) ==
    IF channel \in {"trace", "analysis", "feedback"}
    THEN Append(taf, [channel |-> channel, message |-> message])
    ELSE taf

\* TAFRegistry.element_found
element_found(taf, attempts) ==
    emit_taf(emit_taf(taf, "trace", "Found"), "analysis",
             IF attempts > 1 THEN "found after several attempts" ELSE "immediately available")

\* the longest timeout of a wait_until_visible block, in seconds
MaxTimeout == 2

Native(confidence) == TargetRef("semantic", "native", FALSE, confidence, FALSE, FALSE)

UserDeclared(confidence) == TargetRef("semantic", "user_declared", TRUE, confidence, FALSE, FALSE)

Structural(system_role, verification_required) ==
    TargetRef("structural", "native", FALSE, "declared", system_role, verification_required)

TargetRefs ==
    {Native(c) : c \in Confidences}
    \cup {UserDeclared("low"), UserDeclared("declared")}
    \cup {Structural(TRUE, v) : v \in BOOLEAN}
    \cup {Structural(FALSE, FALSE)}

\* a button whose accessible name is the reference name: 12 + 5
LoginButton == Signals("equal", 0, FALSE, FALSE, TRUE, FALSE, FALSE, FALSE, FALSE, FALSE)

\* a button with another name: 5, not above the threshold
OtherButton == Signals("none", 0, FALSE, FALSE, TRUE, FALSE, FALSE, FALSE, FALSE, FALSE)

EmptyPage == Page(<<>>, 0, <<>>)

\* exactly one button named Login
LoginPage == Page(<<LoginButton>>, 1, <<StructuralFloor + 2>>)

Pages ==
    {EmptyPage, LoginPage,
     Page(<<OtherButton>>, 2, <<StructuralFloor - 1>>),
     Page(<<OtherButton, LoginButton>>, 3, <<StructuralFloor - 1, StructuralFloor>>)}

\* the page at a time: its elements are there from appears_at on
PageAt(call, t) == IF t >= call.appears_at THEN call.page ELSE EmptyPage

ResolutionCalls ==
    {ResolutionCall("click_element", ref, 0, page, at)
     : ref \in TargetRefs, page \in Pages, at \in {0, 10}}
    \cup {ResolutionCall("wait_until_visible", ref, 10 * seconds, page, at)
          : ref \in TargetRefs, seconds \in 1..MaxTimeout, page \in Pages, at \in {0, 10}}

InitResolve ==
    /\ flow = IdleFlow
    /\ RunIdle
    /\ InterpIdle
    /\ ManagerIdle
    /\ rcall \in ResolutionCalls
    /\ rpc = "start"
    /\ attempt = 0
    /\ elapsed = 0
    /\ rlog = <<>>
    /\ rhandle = Throws(NoError)
    /\ rverified = "none"
    /\ rtaf = <<>>
    /\ rstatus = "started"
    /\ rexc = NoError

\* _resolve_with_confidence before its loop: the strategy, its TAF and the
\* wait for page stability, which takes no time or a second
ResolveWithConfidence ==
    /\ rpc = "start"
    /\ rcall.caller # "resolve"
    /\ \E stable \in {0, 10} : elapsed' = elapsed + stable
    /\ rtaf' = emit_taf(emit_taf(rtaf, "trace", "element_resolution"), "trace", "SmartWait")
    /\ rpc' = "attempt"
    /\ UNCHANGED <<runVars, interpVars, managerVars, rcall, attempt, rlog, rhandle, rverified, rstatus, rexc>>

\* one resolver.resolve call with what it gave
Resolution(n, at, r, waited) ==
    [attempt |-> n, at |-> at, exc |-> r.exc, tuple |-> r.tuple, element |-> r.element,
     score |-> r.score, waited |-> waited]

\* one iteration of for attempt in range(max_retries): the handle is returned,
\* or the failure is kept and the loop sleeps before the next attempt
ResolutionAttempt ==
    /\ rpc = "attempt"
    /\ attempt < max_retries(rcall.ref, rcall.timeout)
    /\ LET r == resolve(rcall.ref, PageAt(rcall, elapsed))
       IN  IF r.exc = NoError
           THEN /\ rhandle' = r
                /\ rlog' = Append(rlog, Resolution(attempt + 1, elapsed, r, FALSE))
                /\ rtaf' = element_found(rtaf, attempt + 1)
                /\ rpc' = "resolved"
                /\ UNCHANGED <<attempt, elapsed>>
           ELSE IF WaitsAfter(attempt, max_retries(rcall.ref, rcall.timeout))
           THEN /\ rlog' = Append(rlog, Resolution(attempt + 1, elapsed, r, TRUE))
                /\ rtaf' = emit_taf(rtaf, "analysis", "Waiting before retry")
                /\ elapsed' = elapsed + WaitIntervalOf(rcall.ref.confidence)
                /\ attempt' = attempt + 1
                /\ UNCHANGED <<rhandle, rpc>>
           ELSE /\ rlog' = Append(rlog, Resolution(attempt + 1, elapsed, r, FALSE))
                /\ attempt' = attempt + 1
                /\ UNCHANGED <<rhandle, rpc, rtaf, elapsed>>
    /\ UNCHANGED <<runVars, interpVars, managerVars, rcall, rverified, rstatus, rexc>>

\* all retries exhausted: raise BrowserEngineError("Could not find ...")
ResolutionExhausted ==
    /\ rpc = "attempt"
    /\ attempt >= max_retries(rcall.ref, rcall.timeout)
    /\ rexc' = BrowserEngineError
    /\ rstatus' = "failed"
    /\ rpc' = "done"
    /\ UNCHANGED <<runVars, interpVars, managerVars, rcall, attempt, elapsed, rlog, rhandle, rverified, rtaf>>

\* _execute_wait_until_visible after the handle came back
WaitUntilVisibleReturns ==
    /\ rpc = "resolved"
    /\ rcall.caller = "wait_until_visible"
    /\ rstatus' = "success"
    /\ rpc' = "done"
    /\ UNCHANGED <<runVars, interpVars, managerVars, rcall, attempt, elapsed, rlog, rhandle, rverified, rtaf,
                   rexc>>

\* SeleniumEngine.get_element_capabilities: the capabilities of an element,
\* and the empty dict when the script fails, as it does on a handle that is
\* no element
get_element_capabilities(handle) ==
    IF handle.tuple THEN {{}} ELSE {{}, {"clickable"}}

\* SeleniumEngine.click_handle: a handle that is no WebElement is a
\* ValueError, raised again as BrowserEngineError
click_handle(handle) ==
    IF handle.tuple THEN {"BrowserEngineError"} ELSE {"ok", "BrowserEngineError", "recognised"}

\* _execute_click_element after the handle came back: the capability check,
\* the click, and for a structural reference the call that verifies
ClickResolved ==
    /\ rpc = "resolved"
    /\ rcall.caller = "click_element"
    /\ \E caps \in get_element_capabilities(rhandle) :
          IF _check_capabilities([raised |-> FALSE, required |-> "clickable", caps |-> caps])
          THEN /\ rexc' = IntentCapabilityMismatchError
               /\ rstatus' = "failed"
               /\ rpc' = "done"
               /\ UNCHANGED rtaf
          ELSE \E r \in click_handle(rhandle) :
                 /\ rtaf' = emit_taf(rtaf, "trace", "click_element")
                 /\ rexc' = EngineFailure(r, InteractionBlockedError)
                 /\ IF r # "ok"
                    THEN rstatus' = "failed" /\ rpc' = "done"
                    ELSE IF rcall.ref.intent_type = "structural"
                    THEN rstatus' = rstatus /\ rpc' = "verify"
                    ELSE rstatus' = "success" /\ rpc' = "done"
    /\ UNCHANGED <<runVars, interpVars, managerVars, rcall, attempt, elapsed, rlog, rhandle, rverified>>

StructuralFailureNever(element, verified) == FALSE

\* elif element.verification_required: ... raise BrowserEngineError
StructuralFailure(element, verified) == ~verified /\ element.verification_required

\* _verify_structural_outcome: the engine fails while the page settles, or
\* the outcome of the system role is confirmed or not
VerifyStructuralOutcome ==
    /\ rpc = "verify"
    /\ rpc' = "done"
    /\ IF rcall.ref.intent_type # "structural" \/ ~rcall.ref.system_role
       THEN /\ rstatus' = "success"
            /\ UNCHANGED <<elapsed, rverified, rtaf, rexc>>
       ELSE /\ elapsed' = elapsed + 10
            /\ \E outcome \in {"error", "yes", "no"} :
                 LET started == emit_taf(rtaf, "analysis", "Verifying outcome")
                 IN  /\ rverified' = outcome
                     /\ IF outcome = "error"
                        THEN /\ rtaf' = started
                             /\ rexc' = BrowserEngineError
                             /\ rstatus' = "failed"
                        ELSE IF outcome = "yes"
                        THEN /\ rtaf' = emit_taf(started, "success", "Structural verification passed")
                             /\ rexc' = NoError
                             /\ rstatus' = "success"
                        ELSE IF StructuralFailure(rcall.ref, FALSE)
                        THEN /\ rtaf' = emit_taf(started, "feedback", "Could not confirm")
                             /\ rexc' = BrowserEngineError
                             /\ rstatus' = "failed"
                        ELSE /\ rtaf' = emit_taf(started, "feedback",
                                                 "Could not automatically verify structural outcome")
                             /\ rexc' = NoError
                             /\ rstatus' = "success"
    /\ UNCHANGED <<runVars, interpVars, managerVars, rcall, attempt, rlog, rhandle>>

NextResolve ==
    \/ ResolveWithConfidence
    \/ ResolutionAttempt
    \/ ResolutionExhausted
    \/ WaitUntilVisibleReturns
    \/ ClickResolved
    \/ VerifyStructuralOutcome

SpecResolve == InitResolve /\ [][NextResolve]_vars

\* -------------------------------------- resolve on two candidates
\* the elements whose name compares as given, with every combination of the
\* other signals
ElementsNamed(name, words) ==
    {Signals(name, words, testId, ariaLabel, role, placeholder, title, tagName, near, inside)
     : testId \in BOOLEAN, ariaLabel \in BOOLEAN, role \in BOOLEAN, placeholder \in BOOLEAN,
       title \in BOOLEAN, tagName \in BOOLEAN, near \in BOOLEAN, inside \in BOOLEAN}

ExactElements == ElementsNamed("equal", 0)

PartialElements ==
    ElementsNamed("includes", 0) \cup UNION {ElementsNamed("words", w) : w \in 1..MaxWords}

\* a page of two elements, one named exactly and one partially, in one of
\* the two document orders
TwoCandidatePage(exact, partial, exactFirst) ==
    Page(IF exactFirst THEN <<exact, partial>> ELSE <<partial, exact>>, 0, <<>>)

InitScore ==
    /\ flow = IdleFlow
    /\ RunIdle
    /\ InterpIdle
    /\ ManagerIdle
    /\ \E exact \in ExactElements, partial \in PartialElements, exactFirst \in BOOLEAN :
          rcall = ResolutionCall("resolve", Native("high"), 0,
                                 TwoCandidatePage(exact, partial, exactFirst), 0)
    /\ rpc = "start"
    /\ attempt = 0
    /\ elapsed = 0
    /\ rlog = <<>>
    /\ rhandle = Throws(NoError)
    /\ rverified = "none"
    /\ rtaf = <<>>
    /\ rstatus = "none"
    /\ rexc = NoError

\* one call resolver.resolve(engine, ref) on the page
ResolveOnce ==
    /\ rpc = "start"
    /\ rcall.caller = "resolve"
    /\ LET r == resolve(rcall.ref, rcall.page)
       IN  /\ rlog' = <<Resolution(1, 0, r, FALSE)>>
           /\ rhandle' = r
    /\ rpc' = "done"
    /\ UNCHANGED <<runVars, interpVars, managerVars, rcall, attempt, elapsed, rverified, rtaf, rstatus, rexc>>

NextScore == ResolveOnce

SpecScore == InitScore /\ [][NextScore]_vars

\* what execute_flow reports for the exception that left the block
ReportedError(e, block_id) ==
    IF e.base = "WebLensFailure"
    THEN UserFacingError(e.kind, e.owner, e.determinism, Category(e), block_id)
    ELSE IF e.base = "BrowserEngineError" THEN unknown_error(block_id)
    ELSE NoUserError

\* ------------------------------------------------- the execution manager
\* execution_manager.MAX_HISTORY_ENTRIES
MAX_HISTORY_ENTRIES == 100

\* interpreter.context after BlockInterpreter.__init__: None
NoContext == 0

\* an entry of execution_history: the key and the context whose report it is
HistoryEntry(run_id, context) == [run_id |-> run_id, report |-> context]

HistoryKeys(h) == {h[i].run_id : i \in 1..Len(h)}

\* execution_history[run_id] = report: a dict keeps the place of a key it has
HistoryPut(h, run_id, context) ==
    IF run_id \in HistoryKeys(h)
    THEN [i \in 1..Len(h) |-> IF h[i].run_id = run_id THEN HistoryEntry(run_id, context) ELSE h[i]]
    ELSE Append(h, HistoryEntry(run_id, context))

\* del execution_history[next(iter(execution_history))] when the map is full
Prune(h) == IF Len(h) >= MAX_HISTORY_ENTRIES THEN Tail(h) ELSE h

\* "EXPOSE REPORT LIVE", before interpreter.execute_flow is called
ExposeReportLive(h, context, run_id) ==
    IF context # NoContext THEN HistoryPut(Prune(h), run_id, context) ELSE h

\* "Capture and Persist Final Report", after interpreter.execute_flow returned;
\* run_scenario_suite stores the report the same way
CaptureFinalReport(h, context, run_id) ==
    IF context # NoContext THEN HistoryPut(h, run_id, context) ELSE h

\* BlockInterpreter.execute_flow creates the InterpreterContext of the run
\* unless validate_references returned errors
ContextAfterExecuteFlow(run_id, valid) == IF valid THEN run_id ELSE NoContext

\* the locals of one execute_flow_background call: where it stands, the queue
\* q names (0: none), whether an environment was applied, interpreter.context,
\* the block the interpreter is at and the result of execute_flow; the local
\* browser_engine ("none" for None, "open", "closed"), the calls of its
\* close(), the number of items put before the last of them, and whether the
\* engine was called while it was not open
ThreadState(pc, q, env, context, block, res) ==
    [pc |-> pc, q |-> q, env |-> env, context |-> context, block |-> block, result |-> res,
     engine |-> "none", closes |-> 0, closed_at |-> 0, misused |-> FALSE]

CloseEngineSkipped(t, items_put) == t

\* if browser_engine: browser_engine.close()
CloseEngine(t, items_put) ==
    IF t.engine = "none" THEN t
    ELSE [t EXCEPT !.engine = "closed", !.closes = @ + 1, !.closed_at = items_put]

\* a run whose entry point has returned
FinishedRun(context) ==
    ThreadState("done", 0, FALSE, context, 0, IF context # NoContext THEN "success" ELSE "failed")

\* ------------------------------------- execution_history over many runs
\* the runs of one server process
HistoryRuns == MAX_HISTORY_ENTRIES + 2

\* runs turned away by validate_references, which leave no report
MaxRejectedRuns == 1

\* uuid4: an id no run had before
FreshRunId == Len(thread) + 1

RejectedRuns == {r \in DOMAIN thread : thread[r].context = NoContext}

InitHistory ==
    /\ flow = IdleFlow
    /\ RunIdle
    /\ InterpIdle
    /\ ResolveIdle
    /\ ManagerIdle

\* one run of execute_flow_background from its call to its return, as far as
\* execution_history goes
BackgroundRun ==
    /\ FreshRunId <= HistoryRuns
    /\ \E valid \in BOOLEAN :
          LET run_id  == FreshRunId
              exposed == ExposeReportLive(execution_history, NoContext, run_id)
              context == ContextAfterExecuteFlow(run_id, valid)
          IN  /\ ~valid => Cardinality(RejectedRuns) < MaxRejectedRuns
              /\ execution_history' = CaptureFinalReport(exposed, context, run_id)
              /\ thread' = Append(thread, FinishedRun(context))
    /\ UNCHANGED <<runVars, interpVars, resolveVars, event_queues, queue, puts, delivered,
                   contexts, consumer, cleanup, deleter, key_errors>>

\* one scenario of run_scenario_suite, from the interpreter it creates to the
\* store of its report
ScenarioRun ==
    /\ FreshRunId <= HistoryRuns
    /\ LET run_id  == FreshRunId
           context == ContextAfterExecuteFlow(run_id, TRUE)
       IN  /\ execution_history' = CaptureFinalReport(execution_history, context, run_id)
           /\ thread' = Append(thread, FinishedRun(context))
    /\ UNCHANGED <<runVars, interpVars, resolveVars, event_queues, queue, puts, delivered,
                   contexts, consumer, cleanup, deleter, key_errors>>

NextHistory ==
    \/ BackgroundRun
    \/ ScenarioRun

SpecHistory == InitHistory /\ [][NextHistory]_vars

\* --------------------------------------- one run in the execution manager
\* an item of a run's queue.Queue; run is the run whose code put it
Item(type, r, block, status) == [type |-> type, run |-> r, block |-> block, status |-> status]

ExecutionStart(r) == Item("execution_start", r, "none", "none")

\* the trace item put when an environment was applied
EnvironmentApplied(r) == Item("block_execution", r, "system", "trace")

\* what the on_event closure of execute_flow_background puts
BlockEventItem(r, block, status) == Item("block_execution", r, block, status)

ExecutionComplete(r, res) == Item("execution_complete", r, "none", res)

ErrorItem(r) == Item("error", r, "none", "none")

\* q.put(None)
Sentinel == Item("sentinel", 0, "none", "none")

\* the blocks a modelled flow runs through, in order
RunBlocks == <<"b1", "b2">>

QueueLookupFirst(queues, run_id) == IF DOMAIN queues # {} THEN 1 ELSE 0

\* event_queues.get(run_id): the queue object, 0 for None
QueueLookup(queues, run_id) == IF run_id \in DOMAIN queues THEN queues[run_id] ELSE 0

\* del event_queues[run_id]
DelKey(queues, run_id) == [k \in DOMAIN queues \ {run_id} |-> queues[k]]

\* del execution_history[run_id]
DelHistory(h, run_id) == SelectSeq(h, LAMBDA e : e.run_id # run_id)

ContextOfFirst(run_id) == 1

\* self.context = InterpreterContext(...): an object of the run's own
ContextOf(run_id) == run_id

NewContext == [saved_values |-> {}, blocks |-> <<>>]

Position(pc, q) == [pc |-> pc, q |-> q]

PutAllFirst(o, items) ==
    /\ queue' = [queue EXCEPT ![o] = items \o @]
    /\ puts' = [puts EXCEPT ![o] = items \o @]

\* q.put(item) for each item, on queue object o
PutAll(o, items) ==
    /\ queue' = [queue EXCEPT ![o] = @ \o items]
    /\ puts' = [puts EXCEPT ![o] = @ \o items]

\* execution_manager.start_execution: the run id, its queue, its thread
StartBackgroundExecution(max_runs) ==
    /\ FreshRunId <= max_runs
    /\ LET run_id == FreshRunId
       IN  /\ event_queues' = event_queues @@ (run_id :> run_id)
           /\ queue' = Append(queue, <<>>)
           /\ puts' = Append(puts, <<>>)
           /\ delivered' = Append(delivered, <<>>)
           /\ thread' = Append(thread, ThreadState("lookup", 0, FALSE, NoContext, 0, "none"))
           /\ contexts' = Append(contexts, NewContext)
           /\ consumer' = Append(consumer, Position("none", 0))
           /\ cleanup' = Append(cleanup, "none")
           /\ deleter' = Append(deleter, "none")
    /\ UNCHANGED <<runVars, interpVars, resolveVars, execution_history, key_errors>>

\* execute_flow_background: q = event_queues.get(run_id); if not q: return
LookupQueue(r) ==
    /\ r \in DOMAIN thread
    /\ thread[r].pc = "lookup"
    /\ LET q == QueueLookup(event_queues, r)
       IN  thread' = [thread EXCEPT ![r].q = q,
                                    ![r].pc = IF q = 0 THEN "done" ELSE "notify"]
    /\ UNCHANGED <<runVars, interpVars, resolveVars, event_queues, queue, puts, delivered,
                   execution_history, contexts, consumer, cleanup, deleter, key_errors>>

\* steps 1 to 6 up to the call of execute_flow: the start item, the
\* environment, FlowGraph(**flow_data) and SeleniumEngine(...), either of
\* which may raise and leave browser_engine None, the interpreter, which may
\* raise with the engine created, the report exposed live
NotifyStart(r) ==
    /\ r \in DOMAIN thread
    /\ thread[r].pc = "notify"
    /\ \E env \in BOOLEAN, raised \in BOOLEAN, created \in BOOLEAN :
          /\ ~raised => created
          /\ PutAll(thread[r].q,
                    <<ExecutionStart(r)>> \o (IF env THEN <<EnvironmentApplied(r)>> ELSE <<>>))
          /\ thread' = [thread EXCEPT ![r].env = env,
                                      ![r].engine = IF created THEN "open" ELSE "none",
                                      ![r].pc = IF raised THEN "except" ELSE "execute"]
          /\ execution_history' =
                IF raised THEN execution_history
                ELSE ExposeReportLive(execution_history, NoContext, r)
    /\ UNCHANGED <<runVars, interpVars, resolveVars, event_queues, delivered, contexts,
                   consumer, cleanup, deleter, key_errors>>

\* interpreter.execute_flow up to its first block
ExecuteFlow(r) ==
    /\ r \in DOMAIN thread
    /\ thread[r].pc = "execute"
    /\ \E valid \in BOOLEAN :
          LET context == ContextAfterExecuteFlow(ContextOf(r), valid)
          IN  thread' = [thread EXCEPT
                  ![r].context = context,
                  ![r].block = IF valid THEN 1 ELSE 0,
                  ![r].result = IF valid THEN "none" ELSE "failed",
                  ![r].pc = IF valid THEN "block" ELSE "persist"]
    /\ UNCHANGED <<runVars, interpVars, resolveVars, event_queues, queue, puts, delivered,
                   execution_history, contexts, consumer, cleanup, deleter, key_errors>>

\* _execute_block up to the handler: the "running" event
BlockStart(r) ==
    /\ r \in DOMAIN thread
    /\ thread[r].pc = "block"
    /\ PutAll(thread[r].q, <<BlockEventItem(r, RunBlocks[thread[r].block], "running")>>)
    /\ thread' = [thread EXCEPT ![r].pc = "handler"]
    /\ UNCHANGED <<runVars, interpVars, resolveVars, event_queues, delivered,
                   execution_history, contexts, consumer, cleanup, deleter, key_errors>>

\* the handler, which calls the engine and may save a value, the record, the
\* screenshot taken from the engine, the completion event, and
\* the next block or the end of execute_flow
BlockFinish(r) ==
    /\ r \in DOMAIN thread
    /\ thread[r].pc = "handler"
    /\ \E status \in {"success", "failed"}, saves \in BOOLEAN :
          LET block == RunBlocks[thread[r].block]
              c     == thread[r].context
              more  == status = "success" /\ thread[r].block < Len(RunBlocks)
          IN  /\ contexts' = [contexts EXCEPT
                    ![c].saved_values = IF saves THEN @ \cup {[run |-> r, block |-> block]}
                                        ELSE @,
                    ![c].blocks = Append(@, [run |-> r, block |-> block, status |-> status])]
              /\ PutAll(thread[r].q, <<BlockEventItem(r, block, status)>>)
              /\ thread' = [thread EXCEPT
                    ![r].misused = @ \/ thread[r].engine # "open",
                    ![r].pc = IF more THEN "block" ELSE "persist",
                    ![r].block = IF more THEN @ + 1 ELSE @,
                    ![r].result = IF more THEN "none" ELSE status]
    /\ UNCHANGED <<runVars, interpVars, resolveVars, event_queues, delivered,
                   execution_history, consumer, cleanup, deleter, key_errors>>

\* step 7 and the execution_complete item
PersistAndComplete(r) ==
    /\ r \in DOMAIN thread
    /\ thread[r].pc = "persist"
    /\ execution_history' = CaptureFinalReport(execution_history, thread[r].context, r)
    /\ PutAll(thread[r].q, <<ExecutionComplete(r, thread[r].result)>>)
    /\ thread' = [thread EXCEPT ![r].pc = "finally"]
    /\ UNCHANGED <<runVars, interpVars, resolveVars, event_queues, delivered, contexts,
                   consumer, cleanup, deleter, key_errors>>

\* except Exception: the error item
ExceptClause(r) ==
    /\ r \in DOMAIN thread
    /\ thread[r].pc = "except"
    /\ PutAll(thread[r].q, <<ErrorItem(r)>>)
    /\ thread' = [thread EXCEPT ![r].pc = "finally"]
    /\ UNCHANGED <<runVars, interpVars, resolveVars, event_queues, delivered,
                   execution_history, contexts, consumer, cleanup, deleter, key_errors>>

\* finally: the browser is closed, q.put(None), the cleanup thread is started
FinallyClause(r) ==
    /\ r \in DOMAIN thread
    /\ thread[r].pc = "finally"
    /\ PutAll(thread[r].q, <<Sentinel>>)
    /\ cleanup' = [cleanup EXCEPT ![r] = "sleeping"]
    /\ thread' = [thread EXCEPT
          ![r] = [CloseEngine(@, Len(puts[thread[r].q])) EXCEPT !.pc = "done"]]
    /\ UNCHANGED <<runVars, interpVars, resolveVars, event_queues, delivered,
                   execution_history, contexts, consumer, deleter, key_errors>>

\* delayed_cleanup after time.sleep(600): if run_id in event_queues
CleanupCheck(r) ==
    /\ r \in DOMAIN thread
    /\ cleanup[r] = "sleeping"
    /\ cleanup' = [cleanup EXCEPT ![r] = IF r \in DOMAIN event_queues THEN "found" ELSE "done"]
    /\ UNCHANGED <<runVars, interpVars, resolveVars, event_queues, queue, puts, delivered,
                   execution_history, thread, contexts, consumer, deleter, key_errors>>

\* del event_queues[run_id] by who: KeyError when the key is gone
DelQueueEntry(who, r) ==
    IF r \in DOMAIN event_queues
    THEN /\ event_queues' = DelKey(event_queues, r)
         /\ UNCHANGED key_errors
    ELSE /\ key_errors' = key_errors \cup {<<who, r>>}
         /\ UNCHANGED event_queues

CleanupDelete(r) ==
    /\ r \in DOMAIN thread
    /\ cleanup[r] = "found"
    /\ DelQueueEntry("delayed_cleanup", r)
    /\ cleanup' = [cleanup EXCEPT ![r] = "done"]
    /\ UNCHANGED <<runVars, interpVars, resolveVars, queue, puts, delivered,
                   execution_history, thread, contexts, consumer, deleter>>

\* delete_execution_data: the entry of execution_history, then
\* if run_id in event_queues
DeleteExecutionData(r) ==
    /\ r \in DOMAIN deleter
    /\ deleter[r] = "none"
    /\ execution_history' = DelHistory(execution_history, r)
    /\ deleter' = [deleter EXCEPT ![r] = IF r \in DOMAIN event_queues THEN "found" ELSE "done"]
    /\ UNCHANGED <<runVars, interpVars, resolveVars, event_queues, queue, puts, delivered,
                   thread, contexts, consumer, cleanup, key_errors>>

DeleteQueue(r) ==
    /\ r \in DOMAIN thread
    /\ deleter[r] = "found"
    /\ DelQueueEntry("delete_execution_data", r)
    /\ deleter' = [deleter EXCEPT ![r] = "done"]
    /\ UNCHANGED <<runVars, interpVars, resolveVars, queue, puts, delivered,
                   execution_history, thread, contexts, consumer, cleanup>>

\* main.py stream_status: 404 unless run_id in event_queues; the generator
\* is handed to the StreamingResponse
StreamStatus(r) ==
    /\ r \in DOMAIN consumer
    /\ consumer[r].pc = "none"
    /\ consumer' = [consumer EXCEPT
          ![r].pc = IF r \in DOMAIN event_queues THEN "accepted" ELSE "not_found"]
    /\ UNCHANGED <<runVars, interpVars, resolveVars, event_queues, queue, puts, delivered,
                   execution_history, thread, contexts, cleanup, deleter, key_errors>>

\* event_generator: q = event_queues[run_id]
GeneratorStart(r) ==
    /\ r \in DOMAIN thread
    /\ consumer[r].pc = "accepted"
    /\ IF r \in DOMAIN event_queues
       THEN /\ consumer' = [consumer EXCEPT ![r] = Position("streaming", event_queues[r])]
            /\ UNCHANGED key_errors
       ELSE /\ consumer' = [consumer EXCEPT ![r].pc = "failed"]
            /\ key_errors' = key_errors \cup {<<"event_generator", r>>}
    /\ UNCHANGED <<runVars, interpVars, resolveVars, event_queues, queue, puts, delivered,
                   execution_history, thread, contexts, cleanup, deleter>>

\* item = q.get(); break on None, yield otherwise
GeneratorGet(r) ==
    /\ r \in DOMAIN thread
    /\ consumer[r].pc = "streaming"
    /\ queue[consumer[r].q] # <<>>
    /\ LET item == Head(queue[consumer[r].q])
       IN  /\ queue' = [queue EXCEPT ![consumer[r].q] = Tail(@)]
           /\ IF item = Sentinel
              THEN /\ consumer' = [consumer EXCEPT ![r].pc = "removing"]
                   /\ UNCHANGED delivered
              ELSE /\ delivered' = [delivered EXCEPT ![r] = Append(@, item)]
                   /\ UNCHANGED consumer
    /\ UNCHANGED <<runVars, interpVars, resolveVars, event_queues, puts, execution_history,
                   thread, contexts, cleanup, deleter, key_errors>>

\* del event_queues[run_id] after the loop
GeneratorRemove(r) ==
    /\ r \in DOMAIN thread
    /\ consumer[r].pc = "removing"
    /\ DelQueueEntry("event_generator", r)
    /\ consumer' = [consumer EXCEPT ![r].pc = IF r \in DOMAIN event_queues THEN "done" ELSE "failed"]
    /\ UNCHANGED <<runVars, interpVars, resolveVars, queue, puts, delivered,
                   execution_history, thread, contexts, cleanup, deleter>>

\* one run, its SSE consumer, its delayed cleanup and a delete request
NextManager ==
    \/ StartBackgroundExecution(1)
    \/ LookupQueue(1)
    \/ NotifyStart(1)
    \/ ExecuteFlow(1)
    \/ BlockStart(1)
    \/ BlockFinish(1)
    \/ PersistAndComplete(1)
    \/ ExceptClause(1)
    \/ FinallyClause(1)
    \/ CleanupCheck(1)
    \/ CleanupDelete(1)
    \/ DeleteExecutionData(1)
    \/ DeleteQueue(1)
    \/ StreamStatus(1)
    \/ GeneratorStart(1)
    \/ GeneratorGet(1)
    \/ GeneratorRemove(1)

SpecManager == InitHistory /\ [][NextManager]_vars

\* ------------------------------------------------ two runs at one time
ConcurrentRuns == {1, 2}

NextConcurrent ==
    \/ StartBackgroundExecution(Cardinality(ConcurrentRuns))
    \/ \E r \in ConcurrentRuns : LookupQueue(r)
    \/ \E r \in ConcurrentRuns : NotifyStart(r)
    \/ \E r \in ConcurrentRuns : ExecuteFlow(r)
    \/ \E r \in ConcurrentRuns : BlockStart(r)
    \/ \E r \in ConcurrentRuns : BlockFinish(r)
    \/ \E r \in ConcurrentRuns : PersistAndComplete(r)
    \/ \E r \in ConcurrentRuns : ExceptClause(r)
    \/ \E r \in ConcurrentRuns : FinallyClause(r)

SpecConcurrent == InitHistory /\ [][NextConcurrent]_vars

\* ------------------------------------------- one open_page block alone
\* the longest path of a modelled url
MaxPathLen == 3

RECURSIVE PathsUpTo(_)
PathsUpTo(n) ==
    IF n = 0 THEN {<<>>}
    ELSE LET shorter == PathsUpTo(n - 1)
         IN  shorter \cup {Append(s, c) : s \in {t \in shorter : Len(t) = n - 1}, c \in {"/", "a"}}

\* the url field of an open_page block as submitted: a path, with a scheme
\* in front or without
SubmittedUrls == {prefix \o path : prefix \in {<<>>, <<PlainScheme>>, <<Scheme>>},
                                   path \in PathsUpTo(MaxPathLen)}

\* the variables of the run: none, or BASE_URL with and without slashes at
\* its end
RunVariables ==
    {EmptyDict} \cup {BaseUrlKey :> (<<Scheme, "a">> \o tail) : tail \in {<<>>, <<"/">>, <<"/", "/">>}}

InitOpenPage ==
    /\ flow = IdleFlow
    /\ RunIdle
    /\ ResolveIdle
    /\ ManagerIdle
    /\ itext \in SubmittedUrls
    /\ isaved \in RunVariables
    /\ iresult = NoInterp

\* FlowGraph(**flow_data) builds the block, which runs validate_url, and
\* _execute_open_page hands a url to engine.open_page
OpenPage ==
    /\ ~iresult.called
    /\ \E o \in _execute_open_page(OpenPageBlock(itext, None), isaved) :
          iresult' = [called |-> TRUE, raised |-> o.exc # NoError, value |-> o.calls[1].arg,
                      error |-> o.exc]
    /\ UNCHANGED <<runVars, itext, isaved, resolveVars, managerVars>>

NextOpenPage == OpenPage

SpecOpenPage == InitOpenPage /\ [][NextOpenPage]_vars

\* ================================================================ claims
\* number of indices of sequence s whose element satisfies Test
Count(s, Test(_)) == Cardinality({i \in 1..Len(s) : Test(s[i])})

\* the flow would be turned away by the execution gate
IsDraft(f) == validate_completeness(f) # {} \/ ~is_root(f)

\* C1: a flow with a completeness error, or whose entry block is referenced by
\* another block, is rejected before execution starts: none of its blocks is
\* executed, whichever entry point received it.
C1_DraftFlowNeverExecutes ==
    IsDraft(flow) => executed_blocks = <<>>

\* the evaluations of the condition of repeat_until block r that returned, in
\* order
EvalsOf(r) == SelectSeq(cond_evals, LAMBDA e : e.block = r /\ e.exc = NoError)

\* how many times the body chain of repeat_until block r was started
BodyRuns(r) ==
    LET first == flow.blocks[r].body_blocks[1]
    IN  Count(executed_blocks, LAMBDA id : id = first)

RepeatBlocks == {r \in BlockIds(flow) : flow.blocks[r].type = "repeat_until"}

\* C2: repeat_until runs its body before each evaluation of the condition,
\* stops after the first evaluation that is true, evaluates and runs the body
\* at most max_iterations times, and when max_iterations evaluations were all
\* false the run fails after exactly max_iterations body executions and the
\* block after the loop is never started.
C2_RepeatUntilBounded ==
    \A r \in RepeatBlocks :
        LET b     == flow.blocks[r]
            evals == EvalsOf(r)
            n     == Len(evals)
        IN  /\ n <= b.max_iterations
            /\ \A i \in 1..(n - 1) : ~evals[i].result
            /\ b.body_blocks # <<>> =>
                  /\ n <= BodyRuns(r)
                  /\ BodyRuns(r) <= n + 1
                  /\ BodyRuns(r) <= b.max_iterations
                  /\ (n > 0 /\ evals[n].result) => BodyRuns(r) = n
            /\ (run = "finished" /\ n = b.max_iterations /\ ~evals[n].result) =>
                  /\ report.success = "false"
                  /\ b.body_blocks # <<>> => BodyRuns(r) = b.max_iterations
                  /\ b.next_block # None =>
                        Count(executed_blocks, LAMBDA id : id = b.next_block) = 0
            /\ (run = "finished" /\ report.success = "true" /\ r \in SeqElems(executed_blocks)) =>
                  (n > 0 /\ evals[n].result)

\* a loop with a body gave up: max_iterations body executions, every
\* evaluation false, the run failed
C2_Witness ==
    \E r \in RepeatBlocks :
        /\ run = "finished"
        /\ report.success = "false"
        /\ flow.blocks[r].body_blocks # <<>>
        /\ flow.blocks[r].max_iterations = MaxIterations
        /\ Len(EvalsOf(r)) = MaxIterations
        /\ \A i \in 1..Len(EvalsOf(r)) : ~EvalsOf(r)[i].result
        /\ BodyRuns(r) = MaxIterations

\* a loop stopped on a true evaluation that was not its first
C2_WitnessStops ==
    \E r \in RepeatBlocks :
        /\ run = "finished"
        /\ report.success = "true"
        /\ flow.blocks[r].body_blocks # <<>>
        /\ Len(EvalsOf(r)) = 2
        /\ BodyRuns(r) = 2

\* C3: once a block has raised a failure no further block is started, the
\* failure stays pending until execute_flow catches it, and catching it
\* closes the report with success false and finished_at set; a run never ends
\* with a report left open.
C3_FailureAbortsRun ==
    /\ [][exc # NoError =>
            /\ executed_blocks' = executed_blocks
            /\ \/ exc' # NoError /\ run' = "running"
               \/ /\ run' = "finished"
                  /\ report'.success = "false"
                  /\ report'.finished_at]_vars
    /\ [](run = "finished" => (report.finished_at /\ report.success \in {"true", "false"}))
    /\ []((run = "finished" /\ \E i \in 1..Len(report.blocks) : report.blocks[i].status = "failed")
            => report.success = "false")

\* the first block failed, the block after it never ran, the report is closed
C3_Witness ==
    /\ run = "finished"
    /\ report.success = "false"
    /\ report.finished_at
    /\ Len(executed_blocks) = 1
    /\ flow.blocks[executed_blocks[1]].next_block # None
    /\ report.blocks[1].status = "failed"

\* C4: no block starts before every block started earlier has completed its
\* cycle, its BlockExecution record appended: at any moment at most the block
\* started last is without its record.  Stated for every block type.
C4_StrictlySequential ==
    Len(report.blocks) >= Len(executed_blocks) - 1

\* the events of one kind, in the order they were emitted
RunningEvents == SelectSeq(events, LAMBDA e : e.status = "running")

CompletionEvents == SelectSeq(events, LAMBDA e : e.status # "running")

\* the completion event that carries the payload of record x
EventOf(x) ==
    Event(x.block_id, x.status, x.taf, x.duration_ms, x.screenshot, x.tier_2_evidence)

\* every start has at most one record, and exactly one once the run is over
OneRecordPerStart ==
    /\ \A i \in 1..Len(report.blocks) : report.blocks[i].status \in {"success", "failed"}
    /\ \A id \in BlockIds(flow) :
          LET starts  == Count(executed_blocks, LAMBDA b : b = id)
              records == Count(report.blocks, LAMBDA x : x.block_id = id)
          IN  /\ records <= starts
              /\ run = "finished" => records = starts

\* C5 as amended: with an event listener installed, the 'running' events are
\* exactly the block starts in their order (one per start, there before the
\* handler is dispatched) and the completion events are exactly the
\* BlockExecution records in their order, each with the status, duration and
\* TAF bundle of its record; every start gets exactly one record, success or
\* failed, with or without a listener; without a listener there is no event.
C5_OneCycleOfEventsPerBlock ==
    /\ OneRecordPerStart
    /\ on_event =>
          /\ [i \in 1..Len(RunningEvents) |-> RunningEvents[i].block_id] = executed_blocks
          /\ CompletionEvents = [i \in 1..Len(report.blocks) |-> EventOf(report.blocks[i])]
    /\ ~on_event => events = <<>>

\* a run with a listener ended after a failed block: two events per record
C5_Witness ==
    /\ on_event
    /\ run = "finished"
    /\ Len(report.blocks) >= 2
    /\ \E i \in 1..Len(report.blocks) : report.blocks[i].status = "failed"
    /\ \E i \in 1..Len(report.blocks) : report.blocks[i].status = "success"
    /\ Len(events) = 2 * Len(report.blocks)

\* C5 as stated: every block that starts emits its 'running' event and a
\* completion event that matches its record, listener or not.
C5_AsStated ==
    /\ OneRecordPerStart
    /\ [i \in 1..Len(RunningEvents) |-> RunningEvents[i].block_id] = executed_blocks
    /\ CompletionEvents = [i \in 1..Len(report.blocks) |-> EventOf(report.blocks[i])]

Owners == {"USER", "APP", "ENGINE", "SYSTEM"}

Determinisms == {"CERTAIN", "HEURISTIC", "UNKNOWN"}

\* C6: every run that ends in failure has report.error set to a
\* UserFacingError whose owner is USER, APP, ENGINE or SYSTEM and whose
\* determinism is CERTAIN, HEURISTIC or UNKNOWN; after an unexpected
\* exception the owner is SYSTEM.
C6_FailedRunHasOwnedError ==
    /\ [](run = "finished" /\ report.success = "false" =>
            /\ report.error # NoUserError
            /\ report.error.owner \in Owners
            /\ report.error.determinism \in Determinisms)
    /\ [][(exc.base = "Exception" /\ run' = "finished") => report'.error.owner = "SYSTEM"]_vars

\* text holds, at index i, a token {{p}} with no brace in p; the set of the
\* indices at which such a token closes
TokenEnds(text, i) ==
    {k \in (i + 2)..(Len(text) - 1) :
        /\ IsAt(text, k, Close)
        /\ \A m \in (i + 2)..(k - 1) : text[m] \notin {"{", "}"}}

\* the keys (stripped, as _interpolate strips them) of the tokens of text
TokenKeys(text) ==
    UNION {{Strip(SubSeq(text, i + 2, k - 1)) : k \in TokenEnds(text, i)}
           : i \in {j \in 1..Len(text) : IsAt(text, j, Open)}}

\* C7: _interpolate on a text with a {{key}} token whose key is absent from
\* saved_values raises VariableMissingError, owner USER, determinism CERTAIN;
\* it never returns.
C7_AbsentKeyRaises ==
    (iresult.called /\ \E key \in TokenKeys(itext) : key \notin DOMAIN isaved) =>
        /\ iresult.raised
        /\ iresult.error.kind = "VariableMissingError"
        /\ iresult.error.owner = "USER"
        /\ iresult.error.determinism = "CERTAIN"

\* the engine actions the claim names, and those of the other handlers that
\* type or compare a text
TextActions == {"open_page", "enter_text_handle", "select_option", "verify_text",
                "verify_page_content"}

\* C8: no text that still holds a {{key}} placeholder is passed to
\* open_page, enter_text_handle, select_option, verify_text or
\* verify_page_content.
C8_NoPlaceholderReachesEngine ==
    \A i \in 1..Len(calls) :
        calls[i].op \in TextActions => ~contains_variable(calls[i].arg)

\* a capability answer that does not report the required capability
IsMismatch(q) ==
    q.op = "get_element_capabilities" /\ ~q.raised /\ q.required \notin q.caps

\* the engine calls that act on a handle
InteractionOps == {"click_handle", "enter_text_handle", "enter_text", "select_option",
                   "upload_file", "submit_form", "submit_current_input"}

\* C9: when the capability answer for the resolved handle lacks the required
\* capability the handler raises IntentCapabilityMismatchError, owner USER,
\* determinism CERTAIN, the engine action is not invoked on the handle, and
\* the run ends with that failure as report.error.
C9_MismatchFailsBeforeAction ==
    /\ [](\A i \in 1..Len(calls) : IsMismatch(calls[i]) =>
            /\ exc.kind = "IntentCapabilityMismatchError"
            /\ exc.owner = "USER"
            /\ exc.determinism = "CERTAIN"
            /\ exc.base # "BrowserEngineError"
            /\ \A j \in 1..Len(calls) : calls[j].op \notin InteractionOps)
    /\ [][(exc.kind = "IntentCapabilityMismatchError" /\ run' = "finished") =>
            /\ report'.error.title = "IntentCapabilityMismatchError"
            /\ report'.error.owner = "USER"
            /\ report'.error.determinism = "CERTAIN"
            /\ report'.blocks[Len(report'.blocks)].status = "failed"]_vars

\* enter_text was aimed at the button: the answer lacks "editable"
C9_Witness ==
    /\ Running
    /\ get_block_by_id(flow, Top.block).type = "enter_text"
    /\ \E i \in 1..Len(calls) : IsMismatch(calls[i]) /\ calls[i].handle = "button"
    /\ exc = IntentCapabilityMismatchError

\* the capability each interaction requires
RequiredCapability(op) ==
    CASE op = "click_handle" -> "clickable"
      [] op \in {"enter_text_handle", "enter_text"} -> "editable"
      [] op = "select_option" -> "select_like"
      [] op = "upload_file" -> "file_input"
      [] op \in {"submit_form", "submit_current_input"} -> "submittable"

\* C10: each interaction on a resolved handle comes after a capability query
\* on that handle that reported the capability the interaction requires.
C10_InteractionAfterConfirmingQuery ==
    \A i \in 1..Len(calls) :
        (calls[i].op \in InteractionOps /\ calls[i].handle # NoHandle) =>
            \E j \in 1..(i - 1) :
                /\ calls[j].op = "get_element_capabilities"
                /\ calls[j].handle = calls[i].handle
                /\ ~calls[j].raised
                /\ RequiredCapability(calls[i].op) \in calls[j].caps


\* the blocks started after the activation at position i of executed_blocks
\* and before the same block is started again
Segment(i) ==
    LET again == {j \in (i + 1)..Len(executed_blocks) : executed_blocks[j] = executed_blocks[i]}
        stop  == IF again = {} THEN Len(executed_blocks) + 1
                 ELSE CHOOSE j \in again : \A k \in again : j <= k
    IN  SubSeq(executed_blocks, i + 1, stop - 1)

\* the record of the activation at position i of executed_blocks is written
\* with this status
RecordedAs(id, status) ==
    \E k \in 1..Len(report.blocks) :
        report.blocks[k].block_id = id /\ report.blocks[k].status = status

IfEvaluations ==
    {k \in 1..Len(cond_evals) :
        /\ get_block_by_id(flow, cond_evals[k].block).type = "if_condition"
        /\ cond_evals[k].exc = NoError}

\* C11: if_condition evaluates its condition once per activation, then starts
\* the first block of then_blocks on true or the first block of else_blocks on
\* false, never the other list and no block when the chosen list is empty,
\* and after the branch came back it starts its own next_block exactly once.
C11_IfConditionOneBranchThenNext ==
    \A k \in IfEvaluations :
        LET e      == cond_evals[k]
            b      == get_block_by_id(flow, e.block)
            chosen == IF e.result THEN b.then_blocks ELSE b.else_blocks
            other  == IF e.result THEN b.else_blocks ELSE b.then_blocks
            seg    == Segment(e.index)
            nexts  == Count(seg, LAMBDA id : id = b.next_block)
        IN  /\ Cardinality({j \in 1..Len(cond_evals) : cond_evals[j].index = e.index}) = 1
            /\ chosen # <<>> =>
                  IF seg = <<>>
                  THEN Top.pc = "enter" /\ Top.block = chosen[1]
                  ELSE seg[1] = chosen[1]
            /\ (other # <<>> /\ (chosen = <<>> \/ other[1] # chosen[1])
                  /\ other[1] # b.next_block) =>
                  other[1] \notin SeqElems(seg)
            /\ (chosen = <<>> /\ seg # <<>>) => seg[1] = b.next_block
            /\ Truthy(b.next_block) =>
                  /\ nexts <= 1
                  /\ (nexts = 1 /\ chosen # <<>>) => seg[1] # b.next_block
                  /\ (run = "finished" /\ (chosen # <<>> => RecordedAs(chosen[1], "success"))) =>
                        nexts = 1

\* an if_condition with both lists and a next block evaluated to true: the
\* then branch ran, the else branch did not, the next block ran once
C11_Witness ==
    /\ run = "finished"
    /\ flow \in IfFlows
    /\ \E k \in IfEvaluations :
          LET b == get_block_by_id(flow, cond_evals[k].block)
          IN  /\ cond_evals[k].result
              /\ b.then_blocks = <<"b2">> /\ b.else_blocks = <<"b3">> /\ b.next_block = "b4"
              /\ executed_blocks = <<"b1", "b2", "b4">>

\* the evaluations of element_visible whose element was not resolved
UnresolvedVisible ==
    {k \in 1..Len(cond_evals) :
        LET c == get_block_by_id(flow, cond_evals[k].block).condition
        IN  /\ c.kind = "element_visible"
            /\ c.element.present
            /\ ~cond_evals[k].resolved}

\* C12: an element_visible condition whose element cannot be resolved
\* evaluates to false and raises nothing; an if_condition with an empty else
\* list then starts no branch block: the next block it starts is its
\* next_block.
C12_MissingElementIsFalse ==
    \A k \in UnresolvedVisible :
        LET e == cond_evals[k]
            b == get_block_by_id(flow, e.block)
        IN  /\ e.exc = NoError
            /\ ~e.result
            /\ (b.type = "if_condition" /\ b.else_blocks = <<>>) =>
                  /\ b.then_blocks # <<>> => b.then_blocks[1] \notin SeqElems(Segment(e.index))
                  /\ (b.next_block # None /\ Segment(e.index) # <<>>) =>
                        Segment(e.index)[1] = b.next_block
                  /\ (b.next_block # None /\ run = "finished") => Segment(e.index) # <<>>

\* an if_condition on a missing element with a then list, no else list and a
\* next block: only the if block and its next block were started
C12_Witness ==
    /\ run = "finished"
    /\ \E k \in UnresolvedVisible :
          LET b == get_block_by_id(flow, cond_evals[k].block)
          IN  /\ b.type = "if_condition"
              /\ b.then_blocks # <<>> /\ b.else_blocks = <<>> /\ b.next_block = "b4"
              /\ executed_blocks = <<"b1", "b4">>


\* the messages of a channel of context.current_taf
Channel(taf, channel) == SelectSeq(taf, LAMBDA m : m.channel = channel)

RetryWaitLogged == \E i \in 1..Len(rtaf) : rtaf[i].message = "Waiting before retry"

\* click_element on a native reference against a page that holds exactly one
\* button with the reference name, from the start
LoginScenario ==
    /\ rcall.caller = "click_element"
    /\ rcall.ref.intent_type = "semantic"
    /\ rcall.ref.name_source = "native"
    /\ rcall.page = LoginPage
    /\ rcall.appears_at = 0

\* C13: click_element(role button, name Login) against a page with exactly
\* one button named Login resolves on the first attempt, logs no retry wait,
\* and the click block ends with status success.
C13_LoginClickSucceedsFirstAttempt ==
    (LoginScenario /\ rpc = "done") =>
        /\ Len(rlog) = 1
        /\ rlog[1].exc = NoError
        /\ ~RetryWaitLogged
        /\ rstatus = "success"


\* the reference is resolved by name and role on the whole page
IsMaws(ref) == ref.intent_type = "semantic" /\ ~(ref.name_source = "user_declared" /\ ref.region)

\* the handler is over and every attempt found no candidate above the
\* threshold
NoCandidateEver ==
    /\ rpc = "done"
    /\ IsMaws(rcall.ref)
    /\ rlog # <<>>
    /\ \A i \in 1..Len(rlog) : CandidatesOf(PageAt(rcall, rlog[i].at).elements) = {}

\* C14: when every resolution attempt for a semantic reference finds no
\* candidate above the threshold, the failure the run reports is
\* element-not-found with owner APP and determinism CERTAIN.
C14_NotFoundIsAppCertain ==
    NoCandidateEver =>
        /\ rstatus = "failed"
        /\ rexc.kind = "ElementMissingError"
        /\ ReportedError(rexc, "b1").owner = "APP"
        /\ ReportedError(rexc, "b1").determinism = "CERTAIN"


IsRegionScoped(ref) ==
    ref.intent_type = "semantic" /\ ref.name_source = "user_declared" /\ ref.region

\* the elements of the region that matched the role in call i of resolve
MatchesAt(i) == PageAt(rcall, rlog[i].at).matches

\* C15: for a user-declared reference with a region, resolve returns a handle
\* only when exactly one element matches; zero matches surface as the
\* not-found failure and more than one as the ambiguity failure with owner
\* ENGINE and determinism HEURISTIC.
C15_RegionExactlyOneMatch ==
    IsRegionScoped(rcall.ref) =>
        \A i \in 1..Len(rlog) :
            /\ rlog[i].exc = NoError => MatchesAt(i) = 1
            /\ MatchesAt(i) = 0 => rlog[i].exc.kind = "ElementMissingError"
            /\ MatchesAt(i) > 1 =>
                  /\ rlog[i].exc.kind = "ElementAmbiguousError"
                  /\ rlog[i].exc.owner = "ENGINE"
                  /\ rlog[i].exc.determinism = "HEURISTIC"


\* the scores of the interactive elements in call i of resolve
ScoresAt(i) == PageAt(rcall, rlog[i].at).scores

\* the highest score of a sequence of scores, 0 for none
MaxScore(scores) ==
    IF scores = <<>> THEN 0
    ELSE CHOOSE x \in SeqElems(scores) : \A y \in SeqElems(scores) : x >= y

IsStructural(ref) == ref.intent_type = "structural" /\ ref.system_role

\* C16: StructuralResolver.resolve returns an element only when the best
\* score is at least the floor of 25, and then the best candidate; a best
\* score below 25 always fails and never returns a candidate.
C16_StructuralFloor ==
    IsStructural(rcall.ref) =>
        \A i \in 1..Len(rlog) :
            /\ rlog[i].exc = NoError =>
                  /\ MaxScore(ScoresAt(i)) >= 25
                  /\ rlog[i].score = MaxScore(ScoresAt(i))
                  /\ ScoresAt(i)[rlog[i].element] = MaxScore(ScoresAt(i))
                  /\ ~rlog[i].tuple
            /\ MaxScore(ScoresAt(i)) < 25 =>
                  /\ rlog[i].exc = BrowserEngineError
                  /\ rlog[i].element = 0

\* a structural call whose best candidate scored 24 failed, and the handler
\* gave up
C16_Witness ==
    /\ IsStructural(rcall.ref)
    /\ rpc = "done"
    /\ rstatus = "failed"
    /\ \E i \in 1..Len(rlog) :
          /\ MaxScore(ScoresAt(i)) = 24
          /\ rlog[i].exc = BrowserEngineError

\* a structural call whose best candidate scored exactly 25 returned it
C16_WitnessAtFloor ==
    /\ IsStructural(rcall.ref)
    /\ \E i \in 1..Len(rlog) :
          /\ MaxScore(ScoresAt(i)) = 25
          /\ rlog[i].exc = NoError
          /\ rlog[i].element = 2


\* the position on the page of the element whose name equals the reference's
ExactPosition == CHOOSE i \in 1..Len(rcall.page.elements) : rcall.page.elements[i].name = "equal"

\* C17: of two candidates, one whose accessible name equals the reference
\* name and one that matches it partially, the resolver picks the exact one,
\* whatever the other signals of the two are.
C17_ExactNameOutranksPartial ==
    (rcall.caller = "resolve" /\ rpc = "done") =>
        /\ rlog[1].exc = NoError
        /\ rlog[1].element = ExactPosition


\* the handler is over and no call of resolve gave a handle
NeverSucceeds == rpc = "done" /\ rlog # <<>> /\ \A i \in 1..Len(rlog) : rlog[i].exc # NoError

\* the attempts and the spacing, in tenths of a second, that the policy
\* states for a confidence tier
PolicyAttempts(confidence) == IF confidence = "high" THEN 2 ELSE IF confidence = "low" THEN 5 ELSE 3

PolicySpacing(confidence) == IF confidence = "high" THEN 5 ELSE IF confidence = "low" THEN 20 ELSE 10

\* the resolution that failed made n attempts spaced w, waited after every
\* attempt but the last, and raised BrowserEngineError
FailedAfter(n, w) ==
    /\ Len(rlog) = n
    /\ \A i \in 1..(Len(rlog) - 1) : rlog[i].waited /\ rlog[i + 1].at - rlog[i].at = w
    /\ ~rlog[Len(rlog)].waited
    /\ elapsed = rlog[Len(rlog)].at
    /\ Len(SelectSeq(rtaf, LAMBDA m : m.message = "Waiting before retry")) = Len(rlog) - 1
    /\ rstatus = "failed"
    /\ rexc = BrowserEngineError

\* C18: a resolution without an explicit timeout that never succeeds makes
\* exactly 2 attempts spaced 0.5 s for a high-confidence reference, 5 attempts
\* spaced 2.0 s for a low-confidence one and 3 attempts spaced 1.0 s
\* otherwise, waits only between attempts, and then fails.
C18_RetryPolicy ==
    (NeverSucceeds /\ rcall.timeout = 0) =>
        FailedAfter(PolicyAttempts(rcall.ref.confidence), PolicySpacing(rcall.ref.confidence))

\* a low-confidence resolution gave up after 5 attempts and 4 waits of 2 s
C18_Witness ==
    /\ NeverSucceeds
    /\ rcall.timeout = 0
    /\ rcall.ref.confidence = "low"
    /\ Len(rlog) = 5
    /\ elapsed - rlog[1].at = 80

\* C18 as stated, for every resolution that never succeeds: the attempts of
\* a wait_until_visible block follow its timeout instead
C18_AsStated ==
    NeverSucceeds =>
        FailedAfter(PolicyAttempts(rcall.ref.confidence), PolicySpacing(rcall.ref.confidence))


\* wait_until_visible with timeout 2 s on an element that the resolver finds
\* from 1 s after the start of the block
BannerScenario ==
    /\ rcall.caller = "wait_until_visible"
    /\ rcall.timeout = 20
    /\ rcall.appears_at = 10
    /\ resolve(rcall.ref, rcall.page).exc = NoError

\* the waits between attempts that the handler made
RetryWaits == Len(SelectSeq(rlog, LAMBDA a : a.waited))

\* C19: wait_until_visible with timeout 2 s on an element that becomes
\* resolvable 1 s after the block starts succeeds with exactly one retry
\* interval elapsed, at an elapsed time of at least 1 s and less than 2 s.
C19_WaitSucceedsAfterOneInterval ==
    (BannerScenario /\ rpc = "done") =>
        /\ rstatus = "success"
        /\ RetryWaits = 1
        /\ elapsed >= 10
        /\ elapsed < 20


\* a click on a structural element whose outcome was checked and not
\* confirmed, the handler over
OutcomeUnconfirmed ==
    /\ rcall.caller = "click_element"
    /\ rcall.ref.intent_type = "structural"
    /\ rverified = "no"
    /\ rpc = "done"

FeedbackWarning ==
    \E i \in 1..Len(Channel(rtaf, "feedback")) :
        Channel(rtaf, "feedback")[i].message = "Could not automatically verify structural outcome"

C20_WitnessWarning ==
    /\ OutcomeUnconfirmed
    /\ ~rcall.ref.verification_required
    /\ rstatus = "success"
    /\ FeedbackWarning

\* FlowGraph.get_state
get_state(f) == IF validate_completeness(f) = {} THEN "runnable" ELSE "draft"

\* C21: a flow for which validate_completeness returns no errors (get_state is
\* RUNNABLE) has an entry_block that is a block of the flow and that no block
\* names as next_block or in then_blocks, else_blocks or body_blocks.
C21_RunnableHasRootEntry ==
    get_state(flow) = "runnable" =>
        /\ flow.entry_block \in BlockIds(flow)
        /\ is_root(flow)

\* the ids block b names: next_block unless it is None, and the branch and
\* body lists
ReferencesOf(b) ==
    (IF b.next_block # None THEN {b.next_block} ELSE {})
    \cup SeqElems(b.then_blocks) \cup SeqElems(b.else_blocks) \cup SeqElems(b.body_blocks)

\* entry_block and every id a block names are blocks of the flow
AllReferencesResolve(f) ==
    /\ f.entry_block \in BlockIds(f)
    /\ \A id \in BlockIds(f) : ReferencesOf(f.blocks[id]) \subseteq BlockIds(f)

\* the block ids _execute_block was called with and has not returned from
PendingIds == {stack[i].block : i \in 1..Len(stack)}

\* C22: validate_references returns no error exactly when entry_block and every
\* next_block, then_blocks, else_blocks and body_blocks id is a block of the
\* flow; when it returns errors execute_flow executes no block; when it returns
\* none, _execute_block is never called with an id that is not a block of the
\* flow (None, the end of a chain, aside).
C22_ReferencesResolve ==
    /\ validate_references(flow) = {} <=> AllReferencesResolve(flow)
    /\ validate_references(flow) # {} => executed_blocks = <<>> /\ stack = <<>>
    /\ validate_references(flow) = {} => PendingIds \subseteq BlockIds(flow) \cup {None}

\* a placeholder stands in a value field of the condition of control-flow
\* block b, or in the name of the element of that condition
PlaceholderInCondition(b) ==
    /\ b.type \in ControlTypes
    /\ b.condition.kind # "none"
    /\ \/ contains_variable(b.condition.value)
       \/ contains_variable(b.condition.expected_title)
       \/ contains_variable(b.condition.expected_fragment)
       \/ contains_variable(b.condition.expected_text)
       \/ b.condition.element.present /\ contains_variable(b.condition.element.name)

\* a placeholder stands in the name of the element block b acts on
PlaceholderInElementName(b) == b.element.present /\ contains_variable(b.element.name)

\* C23: validate_completeness reports an error for every flow with a
\* placeholder in a value field of an if_condition or repeat_until condition,
\* or in the name of an element reference used for element selection (the
\* element of a block or of a condition).
C23_PlaceholdersForbidden ==
    (\E id \in BlockIds(flow) :
        PlaceholderInCondition(flow.blocks[id]) \/ PlaceholderInElementName(flow.blocks[id]))
    => validate_completeness(flow) # {}

\* _interpolate called again on what the call returned, with the same saved
\* values
InterpolatedAgain == _interpolate(iresult.value, isaved)

\* C24: when every key the text references is in saved_values, so that
\* _interpolate returns, interpolating its result returns the same string
\* again, and the call leaves saved_values as they were.
C24_InterpolateIdempotent ==
    /\ []((iresult.called /\ ~iresult.raised) =>
            (~InterpolatedAgain.raised /\ InterpolatedAgain.value = iresult.value))
    /\ [][isaved' = isaved]_vars

\* C25: a run goes from not started to running to one terminal state.  While
\* blocks execute report.success is unset and finished_at is empty; the step
\* that ends the run sets both; afterwards the report never changes and no
\* block is started, no engine call made and no event emitted.  A successful
\* report carries no error.
C25_RunLifecycle ==
    /\ [](run \in {"not_started", "running"} =>
            (report.success = "unset" /\ ~report.finished_at))
    /\ [](run = "finished" =>
            /\ report.finished_at
            /\ report.success \in {"true", "false"}
            /\ report.success = "true" => report.error = NoUserError)
    /\ [][run = "not_started" => run' \in {"running", "rejected"}]_vars
    /\ [][run = "running" => run' \in {"running", "finished"}]_vars
    /\ [][run = "finished" =>
            /\ run' = "finished"
            /\ report' = report
            /\ executed_blocks' = executed_blocks
            /\ calls' = calls
            /\ events' = events]_vars

\* a run of two blocks ended in a failure of the taxonomy
C25_Witness ==
    /\ run = "finished"
    /\ report.success = "false"
    /\ report.finished_at
    /\ report.error.owner # "none"
    /\ Len(executed_blocks) = 2

\* a run ended in success, another in an unexpected error
C25_WitnessSuccess ==
    run = "finished" /\ report.success = "true" /\ Len(executed_blocks) = 2

C25_WitnessUnexpected ==
    /\ run = "finished"
    /\ report.success = "false"
    /\ report.error = NoUserError
    /\ result.message = "Unexpected error during execution"

\* C26: after any sequence of runs execution_history holds at most
\* MAX_HISTORY_ENTRIES reports.
C26_HistoryBounded ==
    Len(execution_history) <= MAX_HISTORY_ENTRIES

\* the runs whose thread found its queue and has returned
StartedAndDone == {r \in DOMAIN thread : thread[r].pc = "done" /\ thread[r].q # 0}

FinishMarkers == {"execution_complete", "error"}

\* the on_event calls of the interpreter of run r, from the records of its
\* report: for each block its "running" event, then its completion event
RECURSIVE EventsOf(_, _)
EventsOf(r, blocks) ==
    IF blocks = <<>> THEN <<>>
    ELSE <<BlockEventItem(r, Head(blocks).block, "running"),
           BlockEventItem(r, Head(blocks).block, Head(blocks).status)>>
         \o EventsOf(r, Tail(blocks))

Emitted(r) ==
    IF thread[r].context = NoContext THEN <<>>
    ELSE EventsOf(r, contexts[thread[r].context].blocks)

\* the items of the queue of run r between the first and the last two
Between(r) == SubSeq(puts[r], 2, Len(puts[r]) - 2)

\* the order every queue keeps while it fills: execution_start first, nothing
\* after the sentinel, only the sentinel after a finish marker
OrderedSoFar(r) ==
    LET items == puts[r]
    IN  /\ items # <<>> => items[1] = ExecutionStart(r)
        /\ \A i \in 1..Len(items) :
              /\ items[i].type = "execution_start" => i = 1
              /\ items[i] = Sentinel => i = Len(items)
              /\ items[i].type \in FinishMarkers =>
                    (i = Len(items) \/ (i = Len(items) - 1 /\ items[i + 1] = Sentinel))

\* the queue of a run that has returned, but for the items in between
Framed(r) ==
    LET items == puts[r]
        n     == Len(items)
    IN  /\ n >= 3
        /\ items[1] = ExecutionStart(r)
        /\ items[n - 1].type \in FinishMarkers
        /\ items[n] = Sentinel
        /\ Cardinality({i \in 1..n : items[i].type \in FinishMarkers}) = 1

\* C27: the queue of every started run receives execution_start first, then,
\* when an environment was applied, one trace item of block "system", then
\* one item per block start and per block completion in the order the
\* interpreter emitted them, then exactly one finish marker, then the
\* sentinel as its last item.
C27_QueueOrder ==
    /\ \A r \in DOMAIN puts : OrderedSoFar(r)
    /\ \A r \in StartedAndDone :
          /\ Framed(r)
          /\ Between(r) = (IF thread[r].env THEN <<EnvironmentApplied(r)>> ELSE <<>>) \o Emitted(r)

\* a run of two blocks with an environment has returned
C27_Witness ==
    \E r \in StartedAndDone :
        /\ thread[r].env
        /\ Len(Emitted(r)) = 4
        /\ Len(puts[r]) = 8

\* C27 as stated: between execution_start and the finish marker the queue
\* holds the events of the interpreter and nothing else.
C27_AsStated ==
    /\ \A r \in DOMAIN puts : OrderedSoFar(r)
    /\ \A r \in StartedAndDone : Framed(r) /\ Between(r) = Emitted(r)

\* the terminating sentinel of run r has been put on its queue
SentinelPut(r) == thread[r].pc = "done" /\ thread[r].q # 0

EventsPut(r) == SelectSeq(puts[r], LAMBDA item : item # Sentinel)

\* a del event_queues[run_id] of run r raised KeyError: the one of the
\* generator after its loop, of delayed_cleanup or of delete_execution_data
RemovalFailed(r) ==
    \/ consumer[r].pc = "failed" /\ consumer[r].q # 0
    \/ <<"delayed_cleanup", r>> \in key_errors
    \/ <<"delete_execution_data", r>> \in key_errors

\* every item yielded so far was yielded once and in order, and a generator
\* that has left its loop yielded every event
DeliveredOnce(r) ==
    /\ Len(delivered[r]) <= Len(EventsPut(r))
    /\ delivered[r] = SubSeq(EventsPut(r), 1, Len(delivered[r]))
    /\ consumer[r].pc \in {"removing", "done", "failed"} /\ consumer[r].q # 0
          => delivered[r] = EventsPut(r)

\* C28: once the sentinel of a run has been put, under every interleaving of
\* the generator of stream_status, the delayed cleanup and
\* delete_execution_data, every event is delivered once and in order, and no
\* removal of the entry of event_queues fails for a missing entry.
C28_QueueRetiredOnce ==
    \A r \in DOMAIN thread :
        SentinelPut(r) => DeliveredOnce(r) /\ ~RemovalFailed(r)

\* the runs r whose execute_flow_background call is between its first put and
\* its finally clause
Executing == {r \in DOMAIN thread : thread[r].pc \in {"execute", "block", "handler", "persist"}}

\* what run r holds is its own: the queue it puts on is the one registered
\* under its run_id, and its interpreter's context is no other run's
OwnObjects(r) ==
    /\ thread[r].q \in {0, r}
    /\ thread[r].context \in {NoContext, r}
    /\ \A other \in DOMAIN thread \ {r} :
          /\ thread[r].q # 0 => thread[other].q # thread[r].q
          /\ thread[r].context # NoContext => thread[other].context # thread[r].context

\* nothing of another run is in the saved values, the report or the queue of
\* run r
NothingForeign(r) ==
    /\ \A v \in contexts[r].saved_values : v.run = r
    /\ \A i \in 1..Len(contexts[r].blocks) : contexts[r].blocks[i].run = r
    /\ \A i \in 1..Len(puts[r]) : puts[r][i] = Sentinel \/ puts[r][i].run = r
    /\ \A i \in 1..Len(execution_history) :
          execution_history[i].run_id = r => execution_history[i].report = r

Accepted(f) == validate_references(f) = {} /\ ~IsDraft(f)

\* the run ended as a success or with a classified failure on its report
EndedClassified == report.success = "true" \/ report.error # NoUserError

\* C30: every run of a flow the validators accept ends as a success or as a
\* failure with a classified error: no chain of next_block, branch and body
\* transitions keeps it executing blocks until something other than the flow
\* stops it.
C30_AcceptedRunsEndClassified ==
    Accepted(flow) /\ run = "finished" => EndedClassified

\* the places of report.blocks whose record has status "failed"
FailedRecords == {i \in 1..Len(report.blocks) : report.blocks[i].status = "failed"}

FailedRun == run = "finished" /\ report.success = "false"

\* C31: in a failed run exactly one record of report.blocks has status
\* failed, the record of the block whose handler raised, and every other
\* record has status success.
C31_OneFailedRecord ==
    FailedRun =>
        /\ Cardinality(FailedRecords) = 1
        /\ \A i \in 1..Len(report.blocks) : report.blocks[i].status \in {"success", "failed"}

\* the block whose handler raised: the exception passes the finally clause of
\* that block before the one of any block that encloses it, so its record is
\* the first failed one
RaisingBlock ==
    LET first == CHOOSE i \in FailedRecords : \A j \in FailedRecords : i <= j
    IN  report.blocks[first].block_id

\* C32: on failure error_block_id of the ExecutionResult, and
\* related_block_id of its error, is the id of the block whose handler raised
\* the failure.
C32_ErrorBlockIsRaisingBlock ==
    FailedRun /\ FailedRecords # {} =>
        /\ result.error_block_id = RaisingBlock
        /\ result.error # NoUserError => result.error.related_block_id = RaisingBlock

\* the block_id values of report.blocks, in order
RecordedBlocks == [i \in 1..Len(report.blocks) |-> report.blocks[i].block_id]

\* C33: at the end of a run report.blocks lists the records in the order the
\* blocks started executing: its block_id values are executed_blocks.
C33_RecordsInStartOrder ==
    run = "finished" => RecordedBlocks = executed_blocks

\* the attempts that ended in a sleep before the next one
Sleeps == {i \in 1..Len(rlog) : rlog[i].waited}

\* the time slept between attempts, in tenths of a second
TimeSlept == Cardinality(Sleeps) * PolicySpacing(rcall.ref.confidence)

\* the attempts an explicit timeout of T tenths buys at the spacing of the
\* confidence tier
BudgetAttempts == Max(1, rcall.timeout \div PolicySpacing(rcall.ref.confidence))

\* C34: with an explicit timeout T > 0 a resolution makes no more than
\* max(1, floor(T / interval)) attempts, exactly that many when none
\* succeeds, spaced by the interval of the confidence tier, and the time it
\* sleeps between attempts never exceeds T.
C34_TimeoutBudget ==
    rcall.timeout > 0 =>
        /\ Len(rlog) <= BudgetAttempts
        /\ NeverSucceeds => Len(rlog) = BudgetAttempts
        /\ \A i \in 2..Len(rlog) : rlog[i].at - rlog[i - 1].at = PolicySpacing(rcall.ref.confidence)
        /\ TimeSlept <= rcall.timeout

\* a high-confidence wait of 2 s gave up after 4 attempts and 3 sleeps of 0.5 s
C34_Witness ==
    /\ NeverSucceeds
    /\ rcall.caller = "wait_until_visible"
    /\ rcall.timeout = 20
    /\ rcall.ref.confidence = "high"
    /\ Len(rlog) = 4
    /\ TimeSlept = 15

\* the calls of engine.wait_for_stability made so far: each is announced by
\* the trace message "SmartWait" emitted right before it
StabilityWaits == {i \in 1..Len(rtaf) : rtaf[i].message = "SmartWait"}

\* C35: each resolution attempt of _resolve_with_confidence, the first and
\* every retry, is preceded by a page-stability wait of its own: there are as
\* many stability waits as attempts.
C35_StabilityWaitPerAttempt ==
    rcall.caller # "resolve" => Cardinality(StabilityWaits) >= Len(rlog)

\* the reference is resolved on the MAWS path of ElementResolver.resolve
MawsPath ==
    /\ rcall.ref.intent_type # "structural"
    /\ ~(rcall.ref.name_source = "user_declared" /\ rcall.ref.region)

\* the elements the page held when the resolver call of rlog[i] ran
ElementsAt(i) == PageAt(rcall, rlog[i].at).elements

\* the call of rlog[i] returned a candidate above the threshold whose final
\* score no other candidate exceeds
ReturnedBest(i) ==
    LET els == ElementsAt(i)
        e   == rlog[i].element
    IN  /\ rlog[i].exc = NoError
        /\ e \in 1..Len(els)
        /\ SignalScore(els[e]) > Threshold
        /\ \A j \in CandidatesOf(els) : CandidateScore(els[e]) >= CandidateScore(els[j])

\* C36: on the MAWS path resolve returns a candidate only if its score
\* exceeds the threshold of 5, the returned candidate has the highest final
\* score of all candidates, and with no candidate above the threshold
\* resolve raises element-not-found.
C36_BestAboveThreshold ==
    MawsPath =>
        \A i \in 1..Len(rlog) :
            IF CandidatesOf(ElementsAt(i)) = {}
            THEN rlog[i].exc = ElementMissingError
            ELSE ReturnedBest(i)

\* delete_execution_data(r) has returned
Deleted(r) == deleter[r] = "done"

\* C37: after delete_execution_data(run_id) has returned, the report of the
\* run is not in execution_history and never comes back, also when the run
\* was still executing at the time of the call.
C37_DeletedStaysDeleted ==
    \A r \in DOMAIN thread : Deleted(r) => r \notin HistoryKeys(execution_history)

\* the message a control-flow block emits after its condition was evaluated
ConditionMsg(rec) ==
    Msg(rec.block_id, IF rec.block_type = "if_condition" THEN "if_condition" ELSE "repeat_loop")

\* the messages of TAF bundle taf, as a set
MsgsIn(taf) == {taf[k] : k \in 1..Len(taf)}

\* the condition of the block of record rec was evaluated and gave a result
Evaluated(rec) == \E k \in 1..Len(cond_evals) :
                      cond_evals[k].block = rec.block_id /\ cond_evals[k].exc = NoError

\* C38: the record of an if_condition or repeat_until block carries the TAF
\* messages emitted while the block evaluated its own condition: the blocks
\* of its branch, its body and its downstream chain neither discard them nor
\* take them into their own records.
C38_ConditionTafKept ==
    \A i \in 1..Len(report.blocks) :
        LET rec == report.blocks[i]
        IN  /\ (rec.block_type \in ControlTypes /\ Evaluated(rec))
                  => ConditionMsg(rec) \in MsgsIn(rec.taf)
            /\ \A j \in 1..Len(report.blocks) :
                  (j # i /\ report.blocks[j].block_type \in ControlTypes)
                      => ConditionMsg(report.blocks[j]) \notin MsgsIn(rec.taf)

\* the places of the queue of run r at which items of the given types were put
PlacesOf(r, types) == {i \in 1..Len(puts[r]) : puts[r][i].type \in types}

\* the execute_flow_background call of run r has returned after it created a
\* browser engine
ReturnedWithEngine(r) == thread[r].pc = "done" /\ thread[r].engine # "none"

\* C39: a run of execute_flow_background that created a browser engine
\* closes it exactly once, after its last block event and before its
\* sentinel, whether the run succeeds, fails or raises, and never calls the
\* engine when it is closed.
C39_EngineClosedOnce ==
    \A r \in DOMAIN thread :
        /\ thread[r].closes <= 1
        /\ ~thread[r].misused
        /\ thread[r].engine = "closed" => thread[r].pc = "done"
        /\ ReturnedWithEngine(r) =>
              /\ thread[r].engine = "closed"
              /\ thread[r].closes = 1
              /\ \A i \in PlacesOf(r, {"block_execution"}) : i <= thread[r].closed_at
              /\ PlacesOf(r, {"sentinel"}) # {}
              /\ \A i \in PlacesOf(r, {"sentinel"}) : i > thread[r].closed_at

\* a run of two blocks that succeeded has returned: its engine was closed
\* after the four block events and the completion item, before the sentinel
C39_Witness ==
    /\ 1 \in DOMAIN thread
    /\ ReturnedWithEngine(1)
    /\ thread[1].result = "success"
    /\ Cardinality(PlacesOf(1, {"block_execution"})) >= 4
    /\ thread[1].closed_at = Len(puts[1]) - 1

\* the url submitted for the block is a relative path
RelativeUrl == Len(itext) > 0 /\ itext[1] = "/"

\* C40: an open_page block whose url is a relative path that begins with "/",
\* executed in a run whose variables define BASE_URL, navigates to BASE_URL
\* without the slashes at its end, followed by that path.
C40_RelativeUrlUsesBaseUrl ==
    (iresult.called /\ RelativeUrl /\ BaseUrlKey \in DOMAIN isaved) =>
        iresult.value = RStripSlash(isaved[BaseUrlKey]) \o itext

====
